---- MODULE Spec2Model ----
(***************************************************************************)
(* KrishiMitra advisory orchestration: AdvisoryCoordinator of              *)
(* backend/app/coordination/coordinator.py.                                *)
(*                                                                         *)
(* A Recommendation (schemas.AgentRecommendation) is the record            *)
(*   [agent, priority, confidence_score, summary, explanation, tasks,      *)
(*    risk_level]                                                          *)
(* with confidence_score held in tenths (0.5 is 5), risk_level "" for None *)
(* and texts held as strings, so that the text operations of the code      *)
(* (lower, replace) are computed character by character.                   *)
(***************************************************************************)
EXTENDS Integers, Sequences, FiniteSets, TLC

VARIABLES
    is_coroutine,     \* registry: producer name -> its recommend is "async def"
    conflict_rules,   \* self.conflict_rules: the priority_order lists, in dict order
    request,          \* the AdvisoryRequest: [crop, growth_stage, language]
    pc,               \* position of build_advisory_plan / of _resolve_conflicts
    idx,              \* loop index (1-based) of the loop pc is in
    agent_tasks,      \* list of producer names whose task has been created
    task_state,       \* producer name -> "none" | "pending" | "done" | "exception"
    task_result,      \* producer name -> the Recommendation its task returned
    agent_outputs,    \* the dispatcher's collected list
    prev,             \* the list as it was before the last step of the resolver
    resolved,         \* resolved_recommendations
    exception,        \* what build_advisory_plan raised, "none" if nothing
    response,         \* the AdvisoryResponse returned, NoResponse before
    invocations,      \* producer name -> calls of its recommend in this request
    other,            \* the locals of a second build_advisory_plan call that
                      \* is not running now, NoFrame if there is none
    now,              \* the clock, in seconds
    otp_store,        \* main.otp_store: phone -> [code, expires_at]
    phone_to_farmer,  \* main.phone_to_farmer: phone -> [farmer_id, name]
    user_store,       \* UserStore._data: [farmers: farmer_id -> [phone_e164, name],
                      \*                   phone_to_farmer: E.164 -> farmer_id]
    reply,            \* what the last send_otp / verify_otp call answered: the
                      \* status and detail, for a verification the phone and,
                      \* if it succeeded, the farmer_id and the code given
    issued            \* history: phone -> [code last sent to it, when, successful
                      \* verifications since, send_otp calls so far]

auth_vars == <<now, otp_store, phone_to_farmer, user_store, reply, issued>>

vars == <<is_coroutine, conflict_rules, request, pc, idx, agent_tasks,
          task_state, task_result, agent_outputs, prev, resolved, exception,
          response, invocations, other, auth_vars>>

(***************************************************************************)
(* Small helpers                                                           *)
(***************************************************************************)
Range(s) == {s[k] : k \in DOMAIN s}

\* 1-based positions of name in the list order
Positions(order, name) == {k \in DOMAIN order : order[k] = name}

Max(S) == CHOOSE x \in S : \A y \in S : y <= x

NoRec == [agent |-> "", priority |-> 0, confidence_score |-> 0, summary |-> "",
          explanation |-> "", tasks |-> <<>>, risk_level |-> ""]

NoResponse == [recommendations |-> <<>>, unified_plan |-> <<>>,
               confidence_overall |-> [num |-> 0, den |-> 1],
               risk_assessment |-> [overall_risk_level |-> ""]]

\* no second call
NoFrame == [pc |-> "absent"]

\* the state of the module-level stores of main.py when the server starts
NoReply == [call |-> "none", phone |-> "", otp |-> "", status |-> 0, detail |-> "",
            farmer_id |-> ""]

AuthIdle ==
    /\ now = 0
    /\ otp_store = <<>>
    /\ phone_to_farmer = <<>>
    /\ user_store = [farmers |-> <<>>, phone_to_farmer |-> <<>>]
    /\ reply = NoReply
    /\ issued = <<>>

(***************************************************************************)
(* The registry and the rule set built by __init__                         *)
(***************************************************************************)
agents == <<"irrigation", "fertilizer", "pest", "market",
            "weather_risk", "seed_crop", "finance_policy">>

AgentSet == Range(agents)

\* which built-in producers define recommend with "async def"
BuiltinCoroutine == [a \in AgentSet |-> a \notin {"fertilizer", "market"}]

\* a registry filled with coroutine producers only (the producer interface
\* the dispatcher's create_task expects)
AllCoroutine == [a \in AgentSet |-> TRUE]

builtin_conflict_rules == << <<"irrigation", "fertilizer">>,
                             <<"weather_risk", "irrigation">>,
                             <<"pest", "fertilizer">> >>

(***************************************************************************)
(* str.lower() and the de-duplication key                                  *)
(***************************************************************************)
lower_table == [A |-> "a", B |-> "b", C |-> "c", D |-> "d", E |-> "e",
                F |-> "f", G |-> "g", H |-> "h", I |-> "i", J |-> "j",
                K |-> "k", L |-> "l", M |-> "m", N |-> "n", O |-> "o",
                P |-> "p", Q |-> "q", R |-> "r", S |-> "s", T |-> "t",
                U |-> "u", V |-> "v", W |-> "w", X |-> "x", Y |-> "y",
                Z |-> "z"]

upper_letters == DOMAIN lower_table

lower_char(c) == IF c \in upper_letters THEN lower_table[c] ELSE c

\* str.lower(), from the character at position i on
RECURSIVE lower_from(_, _)
lower_from(s, i) ==
    IF i > Len(s) THEN ""
    ELSE lower_char(SubSeq(s, i, i)) \o lower_from(s, i + 1)

lower(s) == lower_from(s, 1)

\* s.replace(c, "") for a one-character c, from position i on
RECURSIVE remove_char_from(_, _, _)
remove_char_from(s, c, i) ==
    IF i > Len(s) THEN ""
    ELSE (IF SubSeq(s, i, i) = c THEN "" ELSE SubSeq(s, i, i))
         \o remove_char_from(s, c, i + 1)

remove_char(s, c) == remove_char_from(s, c, 1)

\* (variant: the key keeps the case of the task)
task_key_keeps_case(task) == remove_char(remove_char(task, " "), ".")

\* task.lower().replace(" ", "").replace(".", "")
task_key(task) == remove_char(remove_char(lower(task), " "), ".")

(***************************************************************************)
(* _create_fallback_recommendation                                         *)
(***************************************************************************)
fallback_summaries ==
    [irrigation     |-> "Monitor soil moisture and irrigate as needed",
     fertilizer     |-> "Apply balanced fertilizer based on soil test",
     pest           |-> "Monitor for pest activity and apply control measures if needed",
     market         |-> "Monitor market prices and sell at appropriate time",
     weather_risk   |-> "Monitor weather forecasts for potential risks",
     seed_crop      |-> "Select appropriate crop variety for your region",
     finance_policy |-> "Check for available government schemes and loans"]

\* (variant: the default is dropped for a missing key)
get_without_default(table, key, default) == IF key \in DOMAIN table THEN table[key] ELSE ""

\* dict.get(key, default)
get(table, key, default) == IF key \in DOMAIN table THEN table[key] ELSE default

_create_fallback_recommendation(agent_name, req) ==
    [agent            |-> agent_name,
     priority         |-> 5,
     confidence_score |-> 5,
     summary          |-> get(fallback_summaries, agent_name, "General recommendation"),
     explanation      |-> "Fallback recommendation for " \o agent_name \o " agent",
     tasks            |-> <<get(fallback_summaries, agent_name, "Follow general best practices")>>,
     risk_level       |-> "low"]

(***************************************************************************)
(* _resolve_conflicts and its parts                                        *)
(***************************************************************************)
\* (variant: the sort is not stable, r goes before the elements of its priority)
insert_by_priority_unstable(sorted, r) ==
    LET n == Cardinality({k \in DOMAIN sorted : sorted[k].priority > r.priority})
    IN  SubSeq(sorted, 1, n) \o <<r>> \o SubSeq(sorted, n + 1, Len(sorted))

\* one insertion of list.sort(key=priority, reverse=True): r goes behind
\* every element whose priority is at least its own (the sort is stable)
insert_by_priority(sorted, r) ==
    LET n == Cardinality({k \in DOMAIN sorted : sorted[k].priority >= r.priority})
    IN  SubSeq(sorted, 1, n) \o <<r>> \o SubSeq(sorted, n + 1, Len(sorted))

RECURSIVE sort_by_priority(_)
sort_by_priority(recs) ==
    IF recs = <<>> THEN <<>>
    ELSE insert_by_priority(sort_by_priority(SubSeq(recs, 1, Len(recs) - 1)),
                            recs[Len(recs)])

\* (variant: the rule counts down from 9)
rule_priority_from_nine(i) == 9 - i

\* the priority the rule writes for the identifier at 0-based index i
rule_priority(i) == 10 - i

\* the keys of involved_agents: listed identifiers present in the list
involved_agents(recommendations, priority_order) ==
    {recommendations[k].agent : k \in DOMAIN recommendations} \cap Range(priority_order)

\* (variant: the rule lowers the priority it finds by the index)
_apply_conflict_rule_lowering(recommendations, priority_order) ==
    LET involved == involved_agents(recommendations, priority_order)
        holder(name) == Max({k \in DOMAIN recommendations :
                                 recommendations[k].agent = name})
        last_index(name) == Max(Positions(priority_order, name)) - 1
    IN  IF Cardinality(involved) >= 2
        THEN [k \in DOMAIN recommendations |->
                 LET rec == recommendations[k]
                 IN  IF rec.agent \in involved /\ holder(rec.agent) = k
                     THEN [rec EXCEPT !.priority = @ - last_index(rec.agent)]
                     ELSE rec]
        ELSE recommendations

\* (variant: the rule is applied as soon as one listed identifier is present)
_apply_conflict_rule_single_match(recommendations, priority_order) ==
    LET involved == involved_agents(recommendations, priority_order)
        holder(name) == Max({k \in DOMAIN recommendations :
                                 recommendations[k].agent = name})
        last_index(name) == Max(Positions(priority_order, name)) - 1
    IN  IF Cardinality(involved) >= 1
        THEN [k \in DOMAIN recommendations |->
                 LET rec == recommendations[k]
                 IN  IF rec.agent \in involved /\ holder(rec.agent) = k
                     THEN [rec EXCEPT !.priority = rule_priority(last_index(rec.agent))]
                     ELSE rec]
        ELSE recommendations

_apply_conflict_rule(recommendations, priority_order) ==
    LET involved == involved_agents(recommendations, priority_order)
        \* involved_agents[name] is the last list element carrying the name
        holder(name) == Max({k \in DOMAIN recommendations :
                                 recommendations[k].agent = name})
        \* the enumerate loop assigns in list order: the last index stays
        last_index(name) == Max(Positions(priority_order, name)) - 1
    IN  IF Cardinality(involved) >= 2
        THEN [k \in DOMAIN recommendations |->
                 LET rec == recommendations[k]
                 IN  IF rec.agent \in involved /\ holder(rec.agent) = k
                     THEN [rec EXCEPT !.priority = rule_priority(last_index(rec.agent))]
                     ELSE rec]
        ELSE recommendations

\* (variant: the rules are visited from the last one to the first)
rule_at_reversed(k) == conflict_rules[Len(conflict_rules) + 1 - k]

\* the rule the k-th iteration over self.conflict_rules.items() visits
rule_at(k) == conflict_rules[k]

\* for rule_name, rule in self.conflict_rules.items(): resolved = _apply...
RECURSIVE apply_rules_from(_, _)
apply_rules_from(recommendations, k) ==
    IF k > Len(conflict_rules) THEN recommendations
    ELSE apply_rules_from(_apply_conflict_rule(recommendations, rule_at(k)), k + 1)

\* (variant: duplicates are removed from the list while it is iterated, so
\* the task behind a removed one is passed over unexamined)
RECURSIVE unique_tasks_removing_in_place(_, _)
unique_tasks_removing_in_place(tasks, seen_tasks) ==
    IF tasks = <<>> THEN <<>>
    ELSE LET key == task_key(Head(tasks))
         IN  IF key \in seen_tasks
             THEN IF Tail(tasks) = <<>> THEN <<>>
                  ELSE <<tasks[2]>>
                       \o unique_tasks_removing_in_place(Tail(Tail(tasks)), seen_tasks)
             ELSE <<Head(tasks)>>
                  \o unique_tasks_removing_in_place(Tail(tasks), seen_tasks \cup {key})

\* the inner loop of _remove_duplicate_tasks over one task list
RECURSIVE unique_tasks(_, _)
unique_tasks(tasks, seen_tasks) ==
    IF tasks = <<>> THEN <<>>
    ELSE LET key == task_key(Head(tasks))
         IN  IF key \in seen_tasks
             THEN unique_tasks(Tail(tasks), seen_tasks)
             ELSE <<Head(tasks)>> \o unique_tasks(Tail(tasks), seen_tasks \cup {key})

RECURSIVE remove_duplicates_from(_, _)
remove_duplicates_from(recommendations, seen_tasks) ==
    IF recommendations = <<>> THEN <<>>
    ELSE LET rec == Head(recommendations)
         IN  <<[rec EXCEPT !.tasks = unique_tasks(rec.tasks, seen_tasks)]>>
             \o remove_duplicates_from(Tail(recommendations),
                    seen_tasks \cup {task_key(rec.tasks[k]) : k \in DOMAIN rec.tasks})

_remove_duplicate_tasks(recommendations) == remove_duplicates_from(recommendations, {})

_resolve_conflicts(recommendations) ==
    _remove_duplicate_tasks(apply_rules_from(sort_by_priority(recommendations), 1))

(***************************************************************************)
(* _translate_text and _translate_recommendation                           *)
(*                                                                         *)
(* The translated terms of the code are Devanagari, Gurmukhi and Bengali   *)
(* words; they are written here in Latin transliteration.  Like the        *)
(* originals, no transliterated term contains an English key.              *)
(***************************************************************************)
language_translations ==
    [hi |-> << <<"irrigation", "sinchai">>,
               <<"fertilizer", "urvarak">>,
               <<"pest", "keet">>,
               <<"market", "bazaar">>,
               <<"weather_risk", "mausam jokhim">>,
               <<"seed_crop", "beej fasal">>,
               <<"finance_policy", "vitt neeti">>,
               <<"high_priority", "uchch prathamikta">>,
               <<"medium_priority", "madhyam prathamikta">>,
               <<"low_priority", "kam prathamikta">>,
               <<"risk_level", "jokhim star">>,
               <<"confidence", "vishvas">>,
               <<"recommendations", "sifarishen">> >>,
     pa |-> << <<"irrigation", "sinjai">>,
               <<"fertilizer", "khad">>,
               <<"pest", "kira">>,
               <<"market", "bazar">>,
               <<"weather_risk", "mausam jokham">>,
               <<"seed_crop", "bij fasal">>,
               <<"finance_policy", "vitt niti">> >>,
     bn |-> << <<"irrigation", "sech">>,
               <<"fertilizer", "sar">>,
               <<"pest", "poka">>,
               <<"market", "bajar">>,
               <<"weather_risk", "abohawa jhunki">>,
               <<"seed_crop", "bij phosol">>,
               <<"finance_policy", "orthoniti niti">> >>]

\* text.replace(old, new) for a non-empty old, from position i on
RECURSIVE replace_from(_, _, _, _)
replace_from(text, old, new, i) ==
    IF i > Len(text) THEN ""
    ELSE IF i + Len(old) - 1 <= Len(text) /\ SubSeq(text, i, i + Len(old) - 1) = old
         THEN new \o replace_from(text, old, new, i + Len(old))
         ELSE SubSeq(text, i, i) \o replace_from(text, old, new, i + 1)

replace(text, old, new) == replace_from(text, old, new, 1)

\* for english, translated in translations.items(): text = text.replace(...)
RECURSIVE replace_all(_, _, _)
replace_all(text, translations, k) ==
    IF k > Len(translations) THEN text
    ELSE replace_all(replace(text, translations[k][1], translations[k][2]),
                     translations, k + 1)

\* (variant: a language without a table falls back to the Hindi table)
_translate_text_default_table(text, language) ==
    IF language = "en" THEN text
    ELSE replace_all(text,
                     IF language \in DOMAIN language_translations
                     THEN language_translations[language]
                     ELSE language_translations["hi"], 1)

_translate_text(text, language) ==
    IF language = "en" \/ language \notin DOMAIN language_translations
    THEN text
    ELSE replace_all(text, language_translations[language], 1)

_translate_recommendation(recommendation, language) ==
    IF language = "en" THEN recommendation
    ELSE [recommendation EXCEPT
            !.summary = _translate_text(@, language),
            !.explanation = _translate_text(@, language),
            !.tasks = [j \in DOMAIN @ |-> _translate_text(@[j], language)]]

(***************************************************************************)
(* _generate_unified_plan                                                  *)
(***************************************************************************)
\* (variant: the tier tests are strict)
tier_of_strict(priority) ==
    IF priority > 8 THEN "high" ELSE IF priority > 6 THEN "medium" ELSE "low"

\* the branch of the if / elif / else that a priority takes
tier_of(priority) ==
    IF priority >= 8 THEN "high" ELSE IF priority >= 6 THEN "medium" ELSE "low"

\* the tasks of the recommendations of one tier, flattened in list order
RECURSIVE tier_tasks(_, _)
tier_tasks(recommendations, tier) ==
    IF recommendations = <<>> THEN <<>>
    ELSE (IF tier_of(Head(recommendations).priority) = tier
          THEN Head(recommendations).tasks ELSE <<>>)
         \o tier_tasks(Tail(recommendations), tier)

\* (variant: the slice keeps one element more)
first_and_one_more(list, n) ==
    SubSeq(list, 1, IF Len(list) < n + 1 THEN Len(list) ELSE n + 1)

\* list[:n]
first(list, n) == SubSeq(list, 1, IF Len(list) < n THEN Len(list) ELSE n)

\* (variant: the list is cut to 10 before the two tasks are appended)
_generate_unified_plan_cut_first(recommendations, req) ==
    LET tiers == first(first(tier_tasks(recommendations, "high"), 3)
                       \o first(tier_tasks(recommendations, "medium"), 4)
                       \o first(tier_tasks(recommendations, "low"), 3), 10)
    IN  tiers
        \o (IF req.growth_stage # ""
            THEN <<"Monitor " \o req.crop \o " during " \o req.growth_stage \o " stage">>
            ELSE <<>>)
        \o <<"Monitor weather conditions and adjust plans accordingly">>

_generate_unified_plan(recommendations, req) ==
    LET high_priority_tasks == tier_tasks(recommendations, "high")
        medium_priority_tasks == tier_tasks(recommendations, "medium")
        low_priority_tasks == tier_tasks(recommendations, "low")
        unified_plan ==
            first(high_priority_tasks, 3)
            \o first(medium_priority_tasks, 4)
            \o first(low_priority_tasks, 3)
            \o (IF req.growth_stage # ""
                THEN <<"Monitor " \o req.crop \o " during " \o req.growth_stage \o " stage">>
                ELSE <<>>)
            \o <<"Monitor weather conditions and adjust plans accordingly">>
    IN  first(unified_plan, 10)

(***************************************************************************)
(* _calculate_overall_confidence: the float is kept as a fraction in       *)
(* lowest terms, [num, den] standing for num / den                         *)
(***************************************************************************)
Abs(n) == IF n < 0 THEN 0 - n ELSE n

RECURSIVE Gcd(_, _)
Gcd(a, b) == IF b = 0 THEN a ELSE Gcd(b, a % b)

Fraction(n, d) ==
    LET g == Gcd(Abs(n), d)
    IN  [num |-> n \div g, den |-> d \div g]

\* total_weight += weight, over the list
RECURSIVE sum_weight(_)
sum_weight(recommendations) ==
    IF recommendations = <<>> THEN 0
    ELSE Head(recommendations).priority + sum_weight(Tail(recommendations))

\* (variant: the weight is left out of the numerator)
RECURSIVE sum_confidence_unweighted(_)
sum_confidence_unweighted(recommendations) ==
    IF recommendations = <<>> THEN 0
    ELSE Head(recommendations).confidence_score
         + sum_confidence_unweighted(Tail(recommendations))

\* weighted_confidence += rec.confidence_score * weight, in tenths
RECURSIVE sum_weighted_confidence(_)
sum_weighted_confidence(recommendations) ==
    IF recommendations = <<>> THEN 0
    ELSE Head(recommendations).confidence_score * Head(recommendations).priority
         + sum_weighted_confidence(Tail(recommendations))

_calculate_overall_confidence(recommendations) ==
    IF recommendations = <<>> THEN Fraction(5, 10)
    ELSE LET total_weight == sum_weight(recommendations)
             weighted_confidence == sum_weighted_confidence(recommendations)
         IN  IF total_weight > 0
             THEN Fraction(weighted_confidence, 10 * total_weight)
             ELSE Fraction(5, 10)

(***************************************************************************)
(* The same computation in the arithmetic Python carries it out in:        *)
(* confidence_score is a float (IEEE 754 binary64), the weight is an int.  *)
(* A natural number is a sequence of limbs in base 2^24, least significant *)
(* first and without leading zero limbs; a float is [m, e] standing for    *)
(* m * 2^e, rounded to 53 significant bits, ties to even, after every      *)
(* operation.                                                              *)
(***************************************************************************)
LimbBase == 16777216
LimbBits == 24
MantissaBits == 53

RECURSIVE bn_trim(_)
bn_trim(a) ==
    IF a # <<>> /\ a[Len(a)] = 0 THEN bn_trim(SubSeq(a, 1, Len(a) - 1)) ELSE a

\* a * k + carry, for 0 <= k < 128
RECURSIVE bn_mul_small(_, _, _)
bn_mul_small(a, k, carry) ==
    IF a = <<>> THEN (IF carry = 0 THEN <<>> ELSE <<carry>>)
    ELSE LET t == Head(a) * k + carry
         IN  <<t % LimbBase>> \o bn_mul_small(Tail(a), k, t \div LimbBase)

RECURSIVE bn_add(_, _, _)
bn_add(a, b, carry) ==
    IF a = <<>> /\ b = <<>> THEN (IF carry = 0 THEN <<>> ELSE <<carry>>)
    ELSE LET x == IF a = <<>> THEN 0 ELSE Head(a)
             y == IF b = <<>> THEN 0 ELSE Head(b)
             t == x + y + carry
         IN  <<t % LimbBase>>
             \o bn_add(IF a = <<>> THEN <<>> ELSE Tail(a),
                       IF b = <<>> THEN <<>> ELSE Tail(b), t \div LimbBase)

\* quotient limbs 1..i and remainder of a by k, for 0 < k < 128
RECURSIVE bn_div_small(_, _, _, _)
bn_div_small(a, k, i, rem) ==
    IF i > Len(a) \/ i < 1 THEN [q |-> <<>>, r |-> rem]
    ELSE LET upper == bn_div_small(a, k, i + 1, rem)
             cur == upper.r * LimbBase + a[i]
         IN  [q |-> <<cur \div k>> \o upper.q, r |-> cur % k]

bn_quotient(a, k) == bn_trim(bn_div_small(a, k, 1, 0).q)
bn_remainder(a, k) == bn_div_small(a, k, 1, 0).r

RECURSIVE pow2(_)
pow2(n) == IF n = 0 THEN 1 ELSE 2 * pow2(n - 1)

\* a * 2^n
RECURSIVE bn_shl(_, _)
bn_shl(a, n) ==
    IF a = <<>> \/ n = 0 THEN a
    ELSE IF n >= LimbBits THEN <<0>> \o bn_shl(a, n - LimbBits)
    ELSE IF n >= 6 THEN bn_shl(bn_mul_small(a, 64, 0), n - 6)
    ELSE bn_mul_small(a, pow2(n), 0)

\* floor(a / 2^n)
RECURSIVE bn_shr(_, _)
bn_shr(a, n) ==
    IF a = <<>> \/ n = 0 THEN a
    ELSE IF n >= LimbBits THEN bn_shr(Tail(a), n - LimbBits)
    ELSE IF n >= 6 THEN bn_shr(bn_quotient(a, 64), n - 6)
    ELSE bn_quotient(a, pow2(n))

RECURSIVE bits_of(_)
bits_of(n) == IF n = 0 THEN 0 ELSE 1 + bits_of(n \div 2)

bn_bits(a) == IF a = <<>> THEN 0 ELSE (Len(a) - 1) * LimbBits + bits_of(a[Len(a)])

bn_odd(a) == a # <<>> /\ a[1] % 2 = 1

\* m * 2^e rounded to 53 significant bits, ties to even; inexact says that
\* m is already the floor of the exact value
round_to_float(m, e, inexact) ==
    LET shift == bn_bits(m) - MantissaBits
    IN  IF shift <= 0 THEN [m |-> m, e |-> e]
        ELSE LET with_guard == bn_shr(m, shift - 1)
                 q == bn_shr(with_guard, 1)
                 guard == bn_odd(with_guard)
                 sticky == inexact \/ bn_shl(with_guard, shift - 1) # m
                 up == guard /\ (sticky \/ bn_odd(q))
                 rounded == IF up THEN bn_add(q, <<1>>, 0) ELSE q
             IN  IF bn_bits(rounded) > MantissaBits
                 THEN [m |-> bn_shr(rounded, 1), e |-> e + shift + 1]
                 ELSE [m |-> rounded, e |-> e + shift]

float_zero == [m |-> <<>>, e |-> 0]

\* float(n) for a small int n
float_of_int(n) == [m |-> IF n = 0 THEN <<>> ELSE <<n>>, e |-> 0]

\* x / k for a float x and an int 0 < k < 128
float_div_int(x, k) ==
    IF x.m = <<>> THEN float_zero
    ELSE LET scaled == bn_shl(x.m, 64)
         IN  round_to_float(bn_quotient(scaled, k), x.e - 64, bn_remainder(scaled, k) # 0)

\* x * k for a float x and an int 0 <= k < 128
float_mul_int(x, k) ==
    IF x.m = <<>> \/ k = 0 THEN float_zero
    ELSE round_to_float(bn_mul_small(x.m, k, 0), x.e, FALSE)

float_add(x, y) ==
    IF x.m = <<>> THEN y
    ELSE IF y.m = <<>> THEN x
    ELSE LET e == IF x.e < y.e THEN x.e ELSE y.e
         IN  round_to_float(bn_add(bn_shl(x.m, x.e - e), bn_shl(y.m, y.e - e), 0), e, FALSE)

\* the float a confidence of so many tenths is stored as (0.7 is 7 / 10)
float_of_tenths(tenths) == float_div_int(float_of_int(tenths), 10)

\* weighted_confidence after the loop has run over the list
RECURSIVE float_weighted_confidence(_, _)
float_weighted_confidence(recommendations, n) ==
    IF n = 0 THEN float_zero
    ELSE float_add(float_weighted_confidence(recommendations, n - 1),
                   float_mul_int(float_of_tenths(recommendations[n].confidence_score),
                                 recommendations[n].priority))

\* _calculate_overall_confidence, as the float it returns
float_overall_confidence(recommendations) ==
    IF recommendations = <<>> THEN float_of_tenths(5)
    ELSE LET total_weight == sum_weight(recommendations)
         IN  IF total_weight > 0
             THEN float_div_int(float_weighted_confidence(recommendations,
                                                          Len(recommendations)),
                                total_weight)
             ELSE float_of_tenths(5)

(***************************************************************************)
(* _generate_risk_assessment                                               *)
(***************************************************************************)
\* the agents of the recommendations whose risk_level is level, in list order
agents_at_risk(recommendations, level) ==
    LET at_level == SelectSeq(recommendations, LAMBDA rec : rec.risk_level = level)
    IN  [k \in DOMAIN at_level |-> at_level[k].agent]

_generate_risk_assessment(recommendations) ==
    LET high_risks == agents_at_risk(recommendations, "high")
        medium_risks == agents_at_risk(recommendations, "medium")
        rated == {k \in DOMAIN recommendations : recommendations[k].risk_level # ""}
    IN  [overall_risk_level |-> IF high_risks # <<>> THEN "high"
                                ELSE IF medium_risks # <<>> THEN "medium"
                                ELSE "low",
         \* a later entry of the same agent overwrites an earlier one
         agent_risks |-> [a \in {recommendations[k].agent : k \in rated} |->
                            recommendations[Max({k \in rated :
                                recommendations[k].agent = a})].risk_level],
         high_risk_agents |-> high_risks,
         medium_risk_agents |-> medium_risks,
         risk_mitigation_priority |-> high_risks \o medium_risks]

(***************************************************************************)
(* The producers.  A producer is outside the coordinator; what reaches the *)
(* coordinator is the Recommendation it returns or the error it raises.    *)
(* producer_outputs lists, per producer, Recommendations with the          *)
(* priority, confidence and risk values its recommend can return.          *)
(***************************************************************************)
Rec(a, p, c, s, t, r) ==
    [agent |-> a, priority |-> p, confidence_score |-> c, summary |-> s,
     explanation |-> "Advice of the " \o a \o " agent", tasks |-> t, risk_level |-> r]

producer_outputs(a, req) ==
    CASE a = "irrigation" ->
           { Rec(a, 9, 9, "Optimal irrigation schedule",
                 <<"Irrigate immediately", "Schedule irrigation every 2 days">>, "high"),
             Rec(a, 8, 9, "Optimal irrigation schedule",
                 <<"Irrigate immediately", "Schedule irrigation every 3 days">>, "medium"),
             Rec(a, IF req.growth_stage \in {"flowering", "tillering"} THEN 7 ELSE 6, 9,
                 "Optimal irrigation schedule",
                 <<"Schedule irrigation every 4 days">>, "low") }
      [] a = "fertilizer" ->
           { Rec(a, 7, 8, "Provide stage-wise NPK recommendation",
                 <<"Target total season NPK", "Top-dress remaining 30% of N">>, "") }
      [] a = "pest" ->
           { Rec(a, 6, 7, "Routine scouting and pest watchlist.",
                 <<"Scout fields twice this week", "Monitor for rusts and aphids">>, "") }
      [] a = "market" ->
           { Rec(a, 4, 7, "Monitor market prices and plan sales timing.",
                 <<"Track weekly prices at nearest mandis">>, "") }
      [] a = "weather_risk" ->
           { Rec(a, 10, 10, "Weather risk assessment",
                 <<"Monitor weather alerts and forecasts daily">>, "high"),
             Rec(a, 6, 9, "Weather risk assessment",
                 <<"Monitor weather alerts and forecasts daily",
                   "Keep emergency contacts handy">>, "low") }
      [] a = "seed_crop" ->
           { Rec(a, 7, 8, "Optimal seed variety selection",
                 <<"Purchase certified seeds">>, "low") }
      [] a = "finance_policy" ->
           { Rec(a, 8, 9, "Financial schemes and loan opportunities",
                 <<"Visit nearest bank branch">>, "low") }

(***************************************************************************)
(* build_advisory_plan                                                     *)
(***************************************************************************)
GrowthStages == {"", "flowering"}

\* "en", a language of the translation table, and one that is not in it
Languages == {"en", "pa", "fr"}

Request(stage, language) == [crop |-> "wheat", growth_stage |-> stage, language |-> language]

Requests == {Request("", "en"), Request("flowering", "en"),
             Request("flowering", "pa"), Request("", "fr")}

Init ==
    /\ is_coroutine \in {BuiltinCoroutine, AllCoroutine}
    /\ conflict_rules = builtin_conflict_rules
    /\ request \in Requests
    /\ pc = "create"
    /\ idx = 1
    /\ agent_tasks = <<>>
    /\ task_state = [a \in AgentSet |-> "none"]
    /\ task_result = [a \in AgentSet |-> NoRec]
    /\ agent_outputs = <<>>
    /\ prev = <<>>
    /\ resolved = <<>>
    /\ exception = "none"
    /\ response = NoResponse
    /\ invocations = [a \in AgentSet |-> 0]
    /\ other = NoFrame
    /\ AuthIdle

\* agent.recommend(request) of an "async def" producer only builds the
\* coroutine; create_task schedules it
CreateTask ==
    /\ pc = "create"
    /\ idx <= Len(agents)
    /\ is_coroutine[agents[idx]]
    /\ task_state' = [task_state EXCEPT ![agents[idx]] = "pending"]
    /\ agent_tasks' = Append(agent_tasks, agents[idx])
    /\ idx' = idx + 1
    /\ UNCHANGED <<is_coroutine, conflict_rules, request, pc, task_result,
                   agent_outputs, prev, resolved, exception,
                   response>>
    /\ invocations' = [invocations EXCEPT ![agents[idx]] = @ + 1]
    /\ UNCHANGED <<other, auth_vars>>

\* agent.recommend(request) of a plain "def" producer runs the body at once,
\* outside any try: its error leaves build_advisory_plan, and so does the
\* TypeError create_task raises when handed the returned Recommendation
CallPlainRecommend ==
    /\ pc = "create"
    /\ idx <= Len(agents)
    /\ ~is_coroutine[agents[idx]]
    /\ \E outcome \in {"returns", "raises"} :
          exception' = IF outcome = "returns" THEN "TypeError" ELSE "ProducerError"
    /\ pc' = "raised"
    /\ UNCHANGED <<is_coroutine, conflict_rules, request, idx, agent_tasks,
                   task_state, task_result, agent_outputs, prev, resolved,
                   response>>
    /\ invocations' = [invocations EXCEPT ![agents[idx]] = @ + 1]
    /\ UNCHANGED <<other, auth_vars>>

\* the creation loop is over; the await loop starts
StartAwaiting ==
    /\ pc = "create"
    /\ idx > Len(agents)
    /\ pc' = "await"
    /\ idx' = 1
    /\ UNCHANGED <<is_coroutine, conflict_rules, request, agent_tasks, task_state,
                   task_result, agent_outputs, prev, resolved, exception,
                   response>>
    /\ UNCHANGED <<invocations, other, auth_vars>>

\* (variant: the loop stops one task early)
loop_done_early == idx >= Len(agent_tasks)

\* the exit condition of "for agent_name, task in agent_tasks"
loop_done == idx > Len(agent_tasks)

\* (variant: the loop takes the tasks as they complete, as_completed style)
task_as_completed ==
    LET waiting == Range(agent_tasks) \ {agent_outputs[k].agent : k \in DOMAIN agent_outputs}
        finished == {a \in waiting : task_state[a] # "pending"}
    IN  IF finished # {} THEN CHOOSE a \in finished : TRUE
        ELSE CHOOSE a \in waiting : TRUE

\* the producer whose task the await loop is at: the pairs of agent_tasks
\* are taken in the order the creation loop appended them
awaited_task == agent_tasks[idx]

\* "await task" on a task that has not finished suspends the plan
Suspend ==
    /\ pc = "await"
    /\ ~loop_done
    /\ task_state[awaited_task] = "pending"
    /\ pc' = "suspended"
    /\ UNCHANGED <<is_coroutine, conflict_rules, request, idx, agent_tasks,
                   task_state, task_result, agent_outputs, prev, resolved, exception,
                   response>>
    /\ UNCHANGED <<invocations, other, auth_vars>>

\* while the plan is suspended the event loop runs the tasks, in any order
TaskReturns(a) ==
    /\ pc = "suspended"
    /\ task_state[a] = "pending"
    /\ \E r \in producer_outputs(a, request) :
          task_result' = [task_result EXCEPT ![a] = r]
    /\ task_state' = [task_state EXCEPT ![a] = "done"]
    /\ UNCHANGED <<is_coroutine, conflict_rules, request, pc, idx, agent_tasks,
                   agent_outputs, prev, resolved, exception,
                   response>>
    /\ UNCHANGED <<invocations, other, auth_vars>>

TaskRaises(a) ==
    /\ pc = "suspended"
    /\ task_state[a] = "pending"
    /\ task_state' = [task_state EXCEPT ![a] = "exception"]
    /\ UNCHANGED <<is_coroutine, conflict_rules, request, pc, idx, agent_tasks,
                   task_result, agent_outputs, prev, resolved, exception,
                   response>>
    /\ UNCHANGED <<invocations, other, auth_vars>>

\* the awaited task has finished: the plan is woken up
Resume ==
    /\ pc = "suspended"
    /\ task_state[awaited_task] # "pending"
    /\ pc' = "await"
    /\ UNCHANGED <<is_coroutine, conflict_rules, request, idx, agent_tasks,
                   task_state, task_result, agent_outputs, prev, resolved, exception,
                   response>>
    /\ UNCHANGED <<invocations, other, auth_vars>>

\* result = await task; agent_outputs.append(result)
CollectResult ==
    /\ pc = "await"
    /\ ~loop_done
    /\ task_state[awaited_task] = "done"
    /\ agent_outputs' = Append(agent_outputs, task_result[awaited_task])
    /\ idx' = idx + 1
    /\ UNCHANGED <<is_coroutine, conflict_rules, request, pc, agent_tasks,
                   task_state, task_result, prev, resolved, exception,
                   response>>
    /\ UNCHANGED <<invocations, other, auth_vars>>

\* except Exception: agent_outputs.append(fallback)
CollectFallback ==
    /\ pc = "await"
    /\ ~loop_done
    /\ task_state[awaited_task] = "exception"
    /\ agent_outputs' = Append(agent_outputs,
                               _create_fallback_recommendation(awaited_task, request))
    /\ idx' = idx + 1
    /\ UNCHANGED <<is_coroutine, conflict_rules, request, pc, agent_tasks,
                   task_state, task_result, prev, resolved, exception,
                   response>>
    /\ UNCHANGED <<invocations, other, auth_vars>>

\* lines 148-187: the stages behind the await loop up to the response
build_response(outputs, req) ==
    LET language == req.language
        conflicts_resolved == _resolve_conflicts(outputs)
        resolved_recommendations ==
            IF language # "en"
            THEN [k \in DOMAIN conflicts_resolved |->
                     _translate_recommendation(conflicts_resolved[k], language)]
            ELSE conflicts_resolved
        plan == _generate_unified_plan(resolved_recommendations, req)
        unified_plan ==
            IF language # "en"
            THEN [j \in DOMAIN plan |-> _translate_text(plan[j], language)]
            ELSE plan
    IN  [recommendations |-> resolved_recommendations,
         unified_plan |-> unified_plan,
         confidence_overall |-> _calculate_overall_confidence(resolved_recommendations),
         risk_assessment |-> _generate_risk_assessment(resolved_recommendations)]

\* everything behind the await loop runs without suspending
ResolveAndRespond ==
    /\ pc = "await"
    /\ loop_done
    /\ prev' = agent_outputs
    /\ response' = build_response(agent_outputs, request)
    /\ resolved' = response'.recommendations
    /\ pc' = "done"
    /\ UNCHANGED <<is_coroutine, conflict_rules, request, idx, agent_tasks,
                   task_state, task_result, agent_outputs, exception>>
    /\ UNCHANGED <<invocations, other, auth_vars>>

Next ==
    \/ CreateTask
    \/ CallPlainRecommend
    \/ StartAwaiting
    \/ Suspend
    \/ \E a \in AgentSet : TaskReturns(a)
    \/ \E a \in AgentSet : TaskRaises(a)
    \/ Resume
    \/ CollectResult
    \/ CollectFallback
    \/ ResolveAndRespond

Spec == Init /\ [][Next]_vars

TypeOK ==
    /\ pc \in {"create", "await", "suspended", "done", "raised"}
    /\ Len(agent_outputs) <= Len(agents)

(***************************************************************************)
(* _resolve_conflicts step by step, on bounded inputs                      *)
(*                                                                         *)
(* The input list holds, in registration order, one Recommendation per     *)
(* producer of a set of producers: what the producer returned, or its      *)
(* fallback.  Two producers also draw their task list from a pool of       *)
(* texts that collide after normalisation.  The rule list is the built-in  *)
(* one or one of a few others (_apply_conflict_rule takes any rule).       *)
(***************************************************************************)
NumTaskLists == 3      \* how many task lists of the pool the inputs use
LongRuleLen == 11      \* number of identifiers listed by the long rule

TaskPool == << <<"Irrigate today.">>,
               <<"irrigate today", "Apply urea">>,
               <<"Apply urea", "APPLY  UREA.">>,
               <<"Scout fields", "Irrigate Today", "scoutfields">>,
               <<".", " ">> >>

PoolLists == {TaskPool[k] : k \in {j \in DOMAIN TaskPool : j <= NumTaskLists}}

\* the producers whose entry may be the fallback, and those drawing from the pool
FallbackAgents == {"irrigation", "fertilizer", "pest"}
DedupAgents == {"fertilizer", "pest"}

NoRequest == [crop |-> "wheat", growth_stage |-> "", language |-> "en"]

input_recs(a) ==
    producer_outputs(a, NoRequest)
    \cup (IF a \in FallbackAgents
          THEN {_create_fallback_recommendation(a, NoRequest)} ELSE {})
    \cup (IF a \in DedupAgents
          THEN {[r EXCEPT !.tasks = t] : r \in producer_outputs(a, NoRequest),
                                         t \in PoolLists}
          ELSE {})

RECURSIVE input_lists(_)
input_lists(names) ==
    IF names = <<>> THEN {<<>>}
    ELSE {<<r>> \o rest : r \in input_recs(Head(names)),
                          rest \in input_lists(Tail(names))}

\* the producers present in an input list, always in registration order
PresentLists == {agents,
                 <<"irrigation", "fertilizer">>,
                 <<"fertilizer", "pest", "weather_risk">>,
                 <<"pest">>,
                 <<>>}

ResolverInputs == UNION {input_lists(names) : names \in PresentLists}

\* a rule that lists every producer but fertilizer, then names that are not
\* registered, and fertilizer last, at 0-based index LongRuleLen - 1
long_rule ==
    LET others == SelectSeq(agents, LAMBDA a : a # "fertilizer")
    IN  others
        \o [k \in 1..(LongRuleLen - 1 - Len(others)) |-> "extra_" \o ToString(k)]
        \o <<"fertilizer">>

rule_A == <<"weather_risk", "irrigation">>
rule_B == <<"irrigation", "fertilizer">>

\* two entries of the rule dict may carry the same priority_order
RuleLists == {builtin_conflict_rules,
              <<rule_A, rule_B>>,
              <<rule_B, rule_A>>,
              <<rule_A, rule_A>>,
              <<rule_B, rule_B>>,
              << <<"irrigation", "soil", "fertilizer">>,
                 <<"irrigation", "soil", "fertilizer">> >>,
              << <<"irrigation", "soil", "fertilizer">> >>,
              << <<"soil", "pest">> >>,
              <<long_rule>>}

InitResolve ==
    /\ is_coroutine = AllCoroutine
    /\ conflict_rules \in RuleLists
    /\ request = NoRequest
    /\ pc = "r_sort"
    /\ idx = 1
    /\ agent_tasks = <<>>
    /\ task_state = [a \in AgentSet |-> "none"]
    /\ task_result = [a \in AgentSet |-> NoRec]
    /\ agent_outputs \in ResolverInputs
    /\ prev = <<>>
    /\ resolved = <<>>
    /\ exception = "none"
    /\ response = NoResponse
    /\ invocations = [a \in AgentSet |-> 0]
    /\ other = NoFrame
    /\ AuthIdle

\* resolved = recommendations.copy(); resolved.sort(...)
SortStep ==
    /\ pc = "r_sort"
    /\ prev' = agent_outputs
    /\ resolved' = sort_by_priority(agent_outputs)
    /\ pc' = "r_rules"
    /\ idx' = 1
    /\ UNCHANGED <<is_coroutine, conflict_rules, request, agent_tasks, task_state,
                   task_result, agent_outputs, exception,
                   response>>
    /\ UNCHANGED <<invocations, other, auth_vars>>

\* one iteration of the loop over self.conflict_rules
RuleStep ==
    /\ pc = "r_rules"
    /\ idx <= Len(conflict_rules)
    /\ prev' = resolved
    /\ resolved' = _apply_conflict_rule(resolved, rule_at(idx))
    /\ idx' = idx + 1
    /\ UNCHANGED <<is_coroutine, conflict_rules, request, pc, agent_tasks,
                   task_state, task_result, agent_outputs, exception,
                   response>>
    /\ UNCHANGED <<invocations, other, auth_vars>>

\* resolved = self._remove_duplicate_tasks(resolved); return resolved
DedupStep ==
    /\ pc = "r_rules"
    /\ idx > Len(conflict_rules)
    /\ prev' = resolved
    /\ resolved' = _remove_duplicate_tasks(resolved)
    /\ pc' = "r_done"
    /\ UNCHANGED <<is_coroutine, conflict_rules, request, idx, agent_tasks,
                   task_state, task_result, agent_outputs, exception,
                   response>>
    /\ UNCHANGED <<invocations, other, auth_vars>>

\* _remove_duplicate_tasks called once more, on the list it returned
DedupAgain ==
    /\ pc = "r_done"
    /\ prev' = resolved
    /\ resolved' = _remove_duplicate_tasks(resolved)
    /\ pc' = "r_again"
    /\ UNCHANGED <<is_coroutine, conflict_rules, request, idx, agent_tasks,
                   task_state, task_result, agent_outputs, exception,
                   response>>
    /\ UNCHANGED <<invocations, other, auth_vars>>

NextResolve == SortStep \/ RuleStep \/ DedupStep \/ DedupAgain

SpecResolve == InitResolve /\ [][NextResolve]_vars

\* the steps compose to the function build_advisory_plan calls
StepsAreResolve == pc = "r_done" => resolved = _resolve_conflicts(agent_outputs)

(***************************************************************************)
(* The stages of build_advisory_plan behind the dispatcher, step by step,  *)
(* on bounded collected lists                                              *)
(*                                                                         *)
(* The collected list holds, in registration order, one Recommendation per *)
(* producer of a set of producers.  plan_outputs gives, per producer,      *)
(* Recommendations within the ranges of schemas.AgentRecommendation, with  *)
(* task lists long enough to overflow each tier of the plan.               *)
(***************************************************************************)
plan_outputs(a) ==
    CASE a = "irrigation" ->
           { Rec(a, 9, 9, "Urgent irrigation",
                 <<"Irrigate now", "Check pump", "Clear channels", "Mulch beds">>, "high"),
             Rec(a, 8, 9, "Plan irrigation", <<"Irrigate now">>, "medium") }
      [] a = "fertilizer" ->
           { Rec(a, 7, 8, "Stage-wise NPK",
                 <<"Apply urea", "Test soil", "Add compost", "Apply potash", "Apply zinc">>, ""),
             _create_fallback_recommendation(a, NoRequest) }
      [] a = "pest" ->
           { Rec(a, 6, 7, "Routine pest scouting", <<"Scout fields", "Set traps">>, ""),
             Rec(a, 6, 7, "Locust swarm nearby", <<"Scout fields">>, "critical") }
      [] a = "market" ->
           { Rec(a, 4, 5, "Plan sales timing",
                 <<"Track prices", "Compare storage cost", "Visit mandi", "Sell in lots">>, ""),
             Rec(a, 4, 7, "Plan sales timing", <<"Track market prices">>, "") }
      [] a = "weather_risk" ->
           { Rec(a, 10, 10, "Weather risk", <<"Watch alerts">>, "high"),
             Rec(a, 8, 9, "Weather risk",
                 <<"Watch alerts",
                   "Monitor weather conditions and adjust plans accordingly.">>, "medium"),
             Rec(a, 6, 9, "Weather risk", <<"Watch alerts", "Keep contacts handy">>, "low") }
      [] a = "seed_crop" ->
           { Rec(a, 7, 8, "Seed variety",
                 <<"Select variety", "Buy certified seed", "Check germination",
                   "Treat seed">>, "low") }
      [] a = "finance_policy" ->
           { Rec(a, 8, 9, "Schemes and loans", <<"Visit bank">>, "low") }

RECURSIVE plan_lists(_)
plan_lists(names) ==
    IF names = <<>> THEN {<<>>}
    ELSE {<<r>> \o rest : r \in plan_outputs(Head(names)),
                          rest \in plan_lists(Tail(names))}

\* the producers present in a collected list, always in registration order
PlanPresent == {agents,
                <<"fertilizer", "market", "weather_risk", "seed_crop", "finance_policy">>,
                <<"irrigation", "pest", "market", "seed_crop", "finance_policy">>,
                <<"irrigation", "seed_crop", "market">>,
                <<"fertilizer", "seed_crop", "market">>,
                <<"irrigation", "weather_risk">>,
                <<"pest", "weather_risk">>,
                <<"market", "finance_policy">>,
                <<"pest">>,
                <<>>}

PlanInputs == UNION {plan_lists(names) : names \in PlanPresent}

PlanRequests == {Request(stage, language) : stage \in GrowthStages,
                                            language \in Languages}

InitPlan ==
    /\ is_coroutine = AllCoroutine
    /\ conflict_rules = builtin_conflict_rules
    /\ request \in PlanRequests
    /\ pc = "p_resolve"
    /\ idx = 1
    /\ agent_tasks = <<>>
    /\ task_state = [a \in AgentSet |-> "none"]
    /\ task_result = [a \in AgentSet |-> NoRec]
    /\ agent_outputs \in PlanInputs
    /\ prev = <<>>
    /\ resolved = <<>>
    /\ exception = "none"
    /\ response = NoResponse
    /\ invocations = [a \in AgentSet |-> 0]
    /\ other = NoFrame
    /\ AuthIdle

\* resolved_recommendations = self._resolve_conflicts(agent_outputs)
ResolveStep ==
    /\ pc = "p_resolve"
    /\ prev' = agent_outputs
    /\ resolved' = _resolve_conflicts(agent_outputs)
    /\ pc' = "p_translate"
    /\ UNCHANGED <<is_coroutine, conflict_rules, request, idx, agent_tasks,
                   task_state, task_result, agent_outputs, exception, response>>
    /\ UNCHANGED <<invocations, other, auth_vars>>

\* if request.language != "en": translate every Recommendation
TranslateStep ==
    /\ pc = "p_translate"
    /\ prev' = resolved
    /\ resolved' = IF request.language # "en"
                   THEN [k \in DOMAIN resolved |->
                            _translate_recommendation(resolved[k], request.language)]
                   ELSE resolved
    /\ pc' = "p_plan"
    /\ UNCHANGED <<is_coroutine, conflict_rules, request, idx, agent_tasks,
                   task_state, task_result, agent_outputs, exception, response>>
    /\ UNCHANGED <<invocations, other, auth_vars>>

\* unified_plan = self._generate_unified_plan(...), translated if needed
PlanStep ==
    /\ pc = "p_plan"
    /\ LET plan == _generate_unified_plan(resolved, request)
       IN  response' = [response EXCEPT
               !.recommendations = resolved,
               !.unified_plan =
                   IF request.language # "en"
                   THEN [j \in DOMAIN plan |-> _translate_text(plan[j], request.language)]
                   ELSE plan]
    /\ pc' = "p_confidence"
    /\ UNCHANGED <<is_coroutine, conflict_rules, request, idx, agent_tasks,
                   task_state, task_result, agent_outputs, prev, resolved, exception>>
    /\ UNCHANGED <<invocations, other, auth_vars>>

\* overall_confidence = self._calculate_overall_confidence(...)
ConfidenceStep ==
    /\ pc = "p_confidence"
    /\ response' = [response EXCEPT
           !.confidence_overall = _calculate_overall_confidence(resolved)]
    /\ pc' = "p_risk"
    /\ UNCHANGED <<is_coroutine, conflict_rules, request, idx, agent_tasks,
                   task_state, task_result, agent_outputs, prev, resolved, exception>>
    /\ UNCHANGED <<invocations, other, auth_vars>>

\* risk_assessment = self._generate_risk_assessment(...); return
RiskStep ==
    /\ pc = "p_risk"
    /\ response' = [response EXCEPT
           !.risk_assessment = _generate_risk_assessment(resolved)]
    /\ pc' = "p_done"
    /\ UNCHANGED <<is_coroutine, conflict_rules, request, idx, agent_tasks,
                   task_state, task_result, agent_outputs, prev, resolved, exception>>
    /\ UNCHANGED <<invocations, other, auth_vars>>

NextPlan == ResolveStep \/ TranslateStep \/ PlanStep \/ ConfidenceStep \/ RiskStep

SpecPlan == InitPlan /\ [][NextPlan]_vars

\* the steps compose to what the dispatcher's last action computes
StepsAreResponse == pc = "p_done" => response = build_response(agent_outputs, request)

(***************************************************************************)
(* The two aggregators on their own: the list they are handed is any       *)
(* ordering of the same Recommendations, and the confidence is the float   *)
(* the code returns.                                                       *)
(***************************************************************************)
reorderings(recommendations) ==
    LET n == Len(recommendations)
        bijections == {f \in [1..n -> 1..n] : \A i, j \in 1..n : f[i] = f[j] => i = j}
    IN  {[k \in 1..n |-> recommendations[f[k]]] : f \in bijections}

\* lists of at most MaxAggregated Recommendations
MaxAggregated == 3

AggregateInputs == {outputs \in PlanInputs : Len(outputs) <= MaxAggregated}

InitAggregate ==
    /\ is_coroutine = AllCoroutine
    /\ conflict_rules = builtin_conflict_rules
    /\ request = Request("", "en")
    /\ pc = "a_reorder"
    /\ idx = 1
    /\ agent_tasks = <<>>
    /\ task_state = [a \in AgentSet |-> "none"]
    /\ task_result = [a \in AgentSet |-> NoRec]
    /\ agent_outputs \in AggregateInputs
    /\ prev = <<>>
    /\ resolved = <<>>
    /\ exception = "none"
    /\ response = NoResponse
    /\ invocations = [a \in AgentSet |-> 0]
    /\ other = NoFrame
    /\ AuthIdle

\* the same Recommendations reach the aggregators in some order
Reorder ==
    /\ pc = "a_reorder"
    /\ resolved' \in reorderings(agent_outputs)
    /\ pc' = "a_confidence"
    /\ UNCHANGED <<is_coroutine, conflict_rules, request, idx, agent_tasks,
                   task_state, task_result, agent_outputs, prev, exception, response>>
    /\ UNCHANGED <<invocations, other, auth_vars>>

\* overall_confidence = self._calculate_overall_confidence(...), in floats
FloatConfidenceStep ==
    /\ pc = "a_confidence"
    /\ response' = [response EXCEPT
           !.recommendations = resolved,
           !.confidence_overall = float_overall_confidence(resolved)]
    /\ pc' = "p_risk"
    /\ UNCHANGED <<is_coroutine, conflict_rules, request, idx, agent_tasks,
                   task_state, task_result, agent_outputs, prev, resolved, exception>>
    /\ UNCHANGED <<invocations, other, auth_vars>>

NextAggregate == Reorder \/ FloatConfidenceStep \/ RiskStep

SpecAggregate == InitAggregate /\ [][NextAggregate]_vars

\* as exact numbers the weighted mean does not depend on the order
ExactConfidenceAgrees ==
    pc = "p_done" =>
        _calculate_overall_confidence(resolved) = _calculate_overall_confidence(agent_outputs)

\* nor does the overall risk level
RiskLevelAgrees ==
    pc = "p_done" =>
        response.risk_assessment.overall_risk_level
            = _generate_risk_assessment(agent_outputs).overall_risk_level

(***************************************************************************)
(* Two calls of build_advisory_plan on the one coordinator of main.py.     *)
(* The variables hold the locals of the call that is running; other holds  *)
(* the locals of the call that is not.  The event loop passes control from *)
(* one call to the other where the running call awaits an unfinished task  *)
(* or has left build_advisory_plan.  What the two calls share is self:     *)
(* the registry and the rule list.                                         *)
(*                                                                         *)
(* To keep the pairs of calls few, a task finishes when the plan waits for *)
(* it (C20: the order of completion does not reach the response), and only *)
(* the producers of FailingProducers raise.                                *)
(***************************************************************************)
call_locals ==
    [request |-> request, pc |-> pc, idx |-> idx, agent_tasks |-> agent_tasks,
     task_state |-> task_state, task_result |-> task_result,
     agent_outputs |-> agent_outputs, prev |-> prev, resolved |-> resolved,
     exception |-> exception, response |-> response, invocations |-> invocations]

\* the locals of a call that has not run yet
new_call(req) ==
    [request |-> req, pc |-> "create", idx |-> 1, agent_tasks |-> <<>>,
     task_state |-> [a \in AgentSet |-> "none"],
     task_result |-> [a \in AgentSet |-> NoRec],
     agent_outputs |-> <<>>, prev |-> <<>>, resolved |-> <<>>,
     exception |-> "none", response |-> NoResponse,
     invocations |-> [a \in AgentSet |-> 0]]

\* (variant: the list of results is an attribute of the coordinator)
outputs_on_coordinator(call) == agent_outputs

\* agent_outputs = [] is a local: every call has a list of its own
outputs_of(call) == call.agent_outputs

FailingProducers == {"weather_risk"}

InitTwo ==
    /\ is_coroutine \in {BuiltinCoroutine, AllCoroutine}
    /\ conflict_rules = builtin_conflict_rules
    /\ request = Request("", "en")
    /\ pc = "create"
    /\ idx = 1
    /\ agent_tasks = <<>>
    /\ task_state = [a \in AgentSet |-> "none"]
    /\ task_result = [a \in AgentSet |-> NoRec]
    /\ agent_outputs = <<>>
    /\ prev = <<>>
    /\ resolved = <<>>
    /\ exception = "none"
    /\ response = NoResponse
    /\ invocations = [a \in AgentSet |-> 0]
    /\ other = new_call(Request("flowering", "en"))
    /\ AuthIdle

\* the task the plan waits for runs to its return
AwaitedReturns ==
    /\ pc = "suspended"
    /\ task_state[awaited_task] = "pending"
    /\ \E r \in producer_outputs(awaited_task, request) :
          task_result' = [task_result EXCEPT ![awaited_task] = r]
    /\ task_state' = [task_state EXCEPT ![awaited_task] = "done"]
    /\ UNCHANGED <<is_coroutine, conflict_rules, request, pc, idx, agent_tasks,
                   agent_outputs, prev, resolved, exception, response>>
    /\ UNCHANGED <<invocations, other, auth_vars>>

\* the task the plan waits for raises
AwaitedRaises ==
    /\ pc = "suspended"
    /\ task_state[awaited_task] = "pending"
    /\ awaited_task \in FailingProducers
    /\ task_state' = [task_state EXCEPT ![awaited_task] = "exception"]
    /\ UNCHANGED <<is_coroutine, conflict_rules, request, pc, idx, agent_tasks,
                   task_result, agent_outputs, prev, resolved, exception, response>>
    /\ UNCHANGED <<invocations, other, auth_vars>>

\* the event loop runs the other call: the running call is suspended in
\* "await task", or has returned or raised
SwitchCall ==
    /\ pc \in {"suspended", "done", "raised"}
    /\ other # NoFrame
    /\ other' = call_locals
    /\ request' = other.request
    /\ pc' = other.pc
    /\ idx' = other.idx
    /\ agent_tasks' = other.agent_tasks
    /\ task_state' = other.task_state
    /\ task_result' = other.task_result
    /\ agent_outputs' = outputs_of(other)
    /\ prev' = other.prev
    /\ resolved' = other.resolved
    /\ exception' = other.exception
    /\ response' = other.response
    /\ invocations' = other.invocations
    /\ UNCHANGED <<is_coroutine, conflict_rules, auth_vars>>

NextTwo ==
    \/ CreateTask
    \/ CallPlainRecommend
    \/ StartAwaiting
    \/ Suspend
    \/ AwaitedReturns
    \/ AwaitedRaises
    \/ Resume
    \/ CollectResult
    \/ CollectFallback
    \/ ResolveAndRespond
    \/ SwitchCall

SpecTwo == InitTwo /\ [][NextTwo]_vars

(***************************************************************************)
(* The OTP endpoints of main.py.  The three stores are dicts; a dict is a  *)
(* function whose domain is its key set.  None is "" (a name, a            *)
(* farmer_id).  datetime.now() and time.time() read the one clock now, in  *)
(* seconds.  The SMS provider and the write of users.json are taken to     *)
(* succeed.                                                                *)
(***************************************************************************)
plan_vars == <<is_coroutine, conflict_rules, request, pc, idx, agent_tasks,
               task_state, task_result, agent_outputs, prev, resolved, exception,
               response, invocations, other>>

\* d[key] = value
put(d, key, value) == [k \in DOMAIN d \cup {key} |-> IF k = key THEN value ELSE d[k]]

\* (variant: the entry stays)
keep_entry(d, key) == d

\* del d[key]
del(d, key) == [k \in DOMAIN d \ {key} |-> d[k]]

\* d.get(key), with "" for None
lookup(d, key) == IF key \in DOMAIN d THEN d[key] ELSE ""

RECURSIVE lstrip(_)
lstrip(text) ==
    IF text # "" /\ SubSeq(text, 1, 1) = " " THEN lstrip(SubSeq(text, 2, Len(text)))
    ELSE text

RECURSIVE rstrip(_)
rstrip(text) ==
    IF text # "" /\ SubSeq(text, Len(text), Len(text)) = " "
    THEN rstrip(SubSeq(text, 1, Len(text) - 1))
    ELSE text

\* str.strip()
strip(text) == rstrip(lstrip(text))

\* text.replace(c, "") for every c of chars
RECURSIVE without_chars(_, _)
without_chars(text, chars) ==
    IF text = "" THEN ""
    ELSE (IF SubSeq(text, 1, 1) \in chars THEN "" ELSE SubSeq(text, 1, 1))
         \o without_chars(SubSeq(text, 2, Len(text)), chars)

startswith(text, prefix_text) ==
    Len(text) >= Len(prefix_text) /\ SubSeq(text, 1, Len(prefix_text)) = prefix_text

isdigit(text) ==
    /\ text # ""
    /\ \A i \in 1..Len(text) :
          SubSeq(text, i, i) \in {"0", "1", "2", "3", "4", "5", "6", "7", "8", "9"}

\* the e164 component of the pair _normalize_indian returns
_normalize_indian(num) ==
    LET stripped == without_chars(strip(num), {" ", "-"})
        n == IF startswith(stripped, "0") THEN SubSeq(stripped, 2, Len(stripped))
             ELSE stripped
    IN  IF startswith(stripped, "+91") THEN stripped
        ELSE IF startswith(n, "91") /\ Len(n) = 12 THEN "+" \o n
        ELSE IF isdigit(n) /\ Len(n) = 10 THEN "+91" \o n
        ELSE IF startswith(n, "+") THEN n
        ELSE "+" \o n

\* timedelta(minutes=5), in seconds
OtpTtl == 300

\* f"farmer_{int(time.time())}"
new_farmer_id(e164, clock) == "farmer_" \o ToString(clock)

\* UserStore.bind_phone
bind_phone(store, farmer_id, phone_e164) ==
    [farmers |-> put(store.farmers, farmer_id,
                     [phone_e164 |-> phone_e164,
                      name |-> IF farmer_id \in DOMAIN store.farmers
                               THEN store.farmers[farmer_id].name ELSE ""]),
     phone_to_farmer |-> put(store.phone_to_farmer, phone_e164, farmer_id)]

\* UserStore.upsert_farmer
upsert_farmer(store, farmer_id, name, phone_e164) ==
    LET rec == IF farmer_id \in DOMAIN store.farmers THEN store.farmers[farmer_id]
               ELSE [phone_e164 |-> "", name |-> ""]
        named == IF name # "" THEN [rec EXCEPT !.name = name] ELSE rec
    IN  [farmers |-> put(store.farmers, farmer_id,
                         IF phone_e164 # "" THEN [named EXCEPT !.phone_e164 = phone_e164]
                         ELSE named),
         phone_to_farmer |-> IF phone_e164 # ""
                             THEN put(store.phone_to_farmer, phone_e164, farmer_id)
                             ELSE store.phone_to_farmer]

\* the inputs: phone strings as a client sends them (a number with
\* blanks around it, another number with its country code, a blank string),
\* names, and codes of random.randint(1000, 9999)
MaxSeconds == 1        \* the clock is read up to so many seconds ...
MaxTtls == 1           \* ... after so many multiples of the OTP lifetime
MaxSends == 2          \* send_otp calls per phone

PhoneInputs == {" 9876543210 ", "+919123456780", " "}
NameInputs == {"", "Asha"}
Codes == {"1000", "9999"}

\* SendOtpRequest payloads and the code drawn for them: the first number
\* with every name and code, the others without a name and with one code
SendInputs ==
    {[phone |-> " 9876543210 ", name |-> name, code |-> code] :
        name \in NameInputs, code \in Codes}
    \cup {[phone |-> phone, name |-> "", code |-> "1000"] : phone \in PhoneInputs}

\* VerifyOtpRequest payloads
VerifyInputs == {[phone |-> phone, otp |-> otp] : phone \in PhoneInputs, otp \in Codes}
ClockReadings == {seconds + OtpTtl * ttls : seconds \in 0..MaxSeconds, ttls \in 0..MaxTtls}

InitOtp ==
    /\ is_coroutine = BuiltinCoroutine
    /\ conflict_rules = builtin_conflict_rules
    /\ request = Request("", "en")
    /\ pc = "create"
    /\ idx = 1
    /\ agent_tasks = <<>>
    /\ task_state = [a \in AgentSet |-> "none"]
    /\ task_result = [a \in AgentSet |-> NoRec]
    /\ agent_outputs = <<>>
    /\ prev = <<>>
    /\ resolved = <<>>
    /\ exception = "none"
    /\ response = NoResponse
    /\ invocations = [a \in AgentSet |-> 0]
    /\ other = NoFrame
    /\ AuthIdle

\* time passes
Tick ==
    /\ \E later \in ClockReadings : later > now /\ now' = later
    /\ UNCHANGED <<otp_store, phone_to_farmer, user_store, reply, issued, plan_vars>>

\* POST /api/auth/send-otp
send_otp(payload_phone, payload_name, code) ==
    LET phone == strip(payload_phone)
        expires_at == now + OtpTtl
    IN  /\ (IF phone \in DOMAIN issued THEN issued[phone].sends < MaxSends ELSE TRUE)
        /\ IF phone = ""
           THEN /\ reply' = [NoReply EXCEPT !.call = "send_otp", !.status = 400,
                                            !.detail = "Phone is required"]
                /\ UNCHANGED <<otp_store, phone_to_farmer, issued>>
           ELSE /\ otp_store' = put(otp_store, phone,
                                    [code |-> code, expires_at |-> expires_at])
                /\ phone_to_farmer' =
                       IF payload_name # "" /\ phone \notin DOMAIN phone_to_farmer
                       THEN put(phone_to_farmer, phone,
                                [farmer_id |-> "", name |-> payload_name])
                       ELSE phone_to_farmer
                /\ issued' = put(issued, phone,
                                 [code |-> code, sent_at |-> now, verified |-> 0,
                                  sends |-> IF phone \in DOMAIN issued
                                            THEN issued[phone].sends + 1 ELSE 1])
                /\ reply' = [NoReply EXCEPT !.call = "send_otp", !.status = 200,
                                            !.detail = "OTP sent successfully"]
        /\ UNCHANGED <<now, user_store, plan_vars>>

\* POST /api/auth/verify-otp
verify_otp(payload_phone, payload_otp) ==
    LET phone == strip(payload_phone)
        rejected(detail) == [NoReply EXCEPT !.call = "verify_otp", !.phone = phone,
                                            !.status = 400, !.detail = detail]
    IN  /\ IF phone \notin DOMAIN otp_store
           THEN /\ reply' = rejected("No OTP requested for this phone")
                /\ UNCHANGED <<otp_store, phone_to_farmer, user_store, issued>>
           ELSE IF now > otp_store[phone].expires_at
           THEN /\ otp_store' = del(otp_store, phone)
                /\ reply' = rejected("OTP expired. Please request a new one")
                /\ UNCHANGED <<phone_to_farmer, user_store, issued>>
           ELSE IF payload_otp # otp_store[phone].code
           THEN /\ reply' = rejected("Invalid OTP")
                /\ UNCHANGED <<otp_store, phone_to_farmer, user_store, issued>>
           ELSE LET stored == IF phone \in DOMAIN phone_to_farmer
                              THEN phone_to_farmer[phone]
                              ELSE [farmer_id |-> "", name |-> ""]
                    has_stored == phone \in DOMAIN phone_to_farmer
                    e164 == _normalize_indian(phone)
                    existing_id == lookup(user_store.phone_to_farmer, e164)
                    \* mapping = mapping or {"farmer_id": existing_id, "name": None}
                    has_mapping == has_stored \/ existing_id # ""
                    mapping == IF has_stored THEN stored
                               ELSE [farmer_id |-> existing_id, name |-> ""]
                    creates == ~has_mapping \/ mapping.farmer_id = ""
                    farmer_id == IF creates
                                 THEN (IF existing_id # "" THEN existing_id
                                       ELSE new_farmer_id(e164, now))
                                 ELSE mapping.farmer_id
                    bound == IF ~creates THEN mapping
                             ELSE IF ~has_mapping
                             THEN [farmer_id |-> farmer_id, name |-> "Farmer"]
                             ELSE [mapping EXCEPT !.farmer_id = farmer_id]
                IN  /\ phone_to_farmer' = IF creates
                                          THEN put(phone_to_farmer, phone, bound)
                                          ELSE phone_to_farmer
                    /\ user_store' = upsert_farmer(bind_phone(user_store, farmer_id, e164),
                                                   farmer_id, bound.name, e164)
                    /\ otp_store' = del(otp_store, phone)
                    /\ issued' = [issued EXCEPT ![phone].verified = @ + 1]
                    /\ reply' = [call |-> "verify_otp", phone |-> phone,
                                 otp |-> payload_otp, status |-> 200,
                                 detail |-> "OTP verified", farmer_id |-> farmer_id]
        /\ UNCHANGED <<now, plan_vars>>

NextOtp ==
    \/ Tick
    \/ \E payload \in SendInputs : send_otp(payload.phone, payload.name, payload.code)
    \/ \E payload \in VerifyInputs : verify_otp(payload.phone, payload.otp)

SpecOtp == InitOtp /\ [][NextOtp]_vars

\* a verification of a number that is bound already answers with the
\* farmer_id the number was bound to
ReverifyKeepsFarmerId ==
    [][ /\ reply'.call = "verify_otp" /\ reply'.status = 200
        /\ otp_store' # otp_store
        /\ _normalize_indian(reply'.phone) \in DOMAIN user_store.phone_to_farmer
        => reply'.farmer_id = user_store.phone_to_farmer[_normalize_indian(reply'.phone)]
      ]_vars

(***************************************************************************)
(* _create_fallback_recommendation on its own, for registered identifiers  *)
(* and for identifiers the static table does not know                      *)
(***************************************************************************)
FallbackNames == AgentSet \cup {"soil_health", "Irrigation", ""}

InitFallback ==
    /\ is_coroutine = AllCoroutine
    /\ conflict_rules = builtin_conflict_rules
    /\ request \in PlanRequests
    /\ pc = "f_call"
    /\ idx = 1
    /\ agent_tasks \in {<<name>> : name \in FallbackNames}
    /\ task_state = [a \in AgentSet |-> "none"]
    /\ task_result = [a \in AgentSet |-> NoRec]
    /\ agent_outputs = <<>>
    /\ prev = <<>>
    /\ resolved = <<>>
    /\ exception = "none"
    /\ response = NoResponse
    /\ invocations = [a \in AgentSet |-> 0]
    /\ other = NoFrame
    /\ AuthIdle

\* fallback = self._create_fallback_recommendation(agent_name, request)
FallbackStep ==
    /\ pc = "f_call"
    /\ agent_outputs' = Append(agent_outputs,
                               _create_fallback_recommendation(agent_tasks[idx], request))
    /\ pc' = "f_done"
    /\ UNCHANGED <<is_coroutine, conflict_rules, request, idx, agent_tasks,
                   task_state, task_result, prev, resolved, exception, response>>
    /\ UNCHANGED <<invocations, other, auth_vars>>

NextFallback == FallbackStep

SpecFallback == InitFallback /\ [][NextFallback]_vars

(***************************************************************************)
(* Properties                                                              *)
(***************************************************************************)
\* positions of the entries of a list that carry the identifier a
entries_of(recs, a) == {k \in DOMAIN recs : recs[k].agent = a}

present_in(recs) == {recs[k].agent : k \in DOMAIN recs}

\* the priority of the (single) entry of identifier a
priority_of(recs, a) == recs[CHOOSE k \in DOMAIN recs : recs[k].agent = a].priority

\* 0-based index of identifier a in a rule that lists it once
index_in(rule, a) == (CHOOSE j \in DOMAIN rule : rule[j] = a) - 1

\* the normalisation the specification gives: lowercase, no spaces, no periods
RECURSIVE normalized_from(_, _)
normalized_from(s, i) ==
    IF i > Len(s) THEN ""
    ELSE (IF SubSeq(s, i, i) \in {" ", "."} THEN "" ELSE lower_char(SubSeq(s, i, i)))
         \o normalized_from(s, i + 1)

normalized(task) == normalized_from(task, 1)

normalized_keys(tasks) == {normalized(tasks[j]) : j \in DOMAIN tasks}

\* C1: whenever build_advisory_plan has ended, it has produced a
\* Recommendation set with exactly one entry per registered producer
\* (7 entries with the built-in registry), whichever producers failed.
C1_OneEntryPerProducer ==
    pc \in {"done", "raised"} =>
        /\ Len(resolved) = Len(agents)
        /\ \A a \in AgentSet : Cardinality(entries_of(resolved, a)) = 1

\* C2: no producer-level failure leaves build_advisory_plan, neither one
\* raised when recommend is called nor one raised while the task is awaited:
\* build_advisory_plan never ends by raising.
C2_NoFailurePropagates == pc # "raised" /\ exception = "none"

dispatch_over == pc = "raised" \/ (pc = "await" /\ idx > Len(agent_tasks))

producer_failed(P) ==
    \/ task_state[P] = "exception"
    \/ pc = "raised" /\ exception = "ProducerError" /\ agents[idx] = P

\* C3: when producer P has failed, the dispatcher's output holds the
\* fallback of P under P's identifier, and for every other producer Q that
\* did not fail, Q has run and its entry is exactly what Q returned.
C3_FailureIsIsolated ==
    dispatch_over =>
        \A P \in AgentSet : producer_failed(P) =>
            /\ \E k \in DOMAIN agent_outputs :
                  agent_outputs[k] = _create_fallback_recommendation(P, request)
            /\ Cardinality(entries_of(agent_outputs, P)) = 1
            /\ \A Q \in AgentSet \ {P} : ~producer_failed(Q) =>
                  /\ task_state[Q] = "done"
                  /\ \E k \in DOMAIN agent_outputs : agent_outputs[k] = task_result[Q]

\* C4: join barrier: once conflict resolution has run, every registered
\* producer call has completed or failed (none is pending or unstarted), and
\* the list the resolver read has one entry per registered producer.
C4_JoinBarrier ==
    (pc = "done" \/ resolved # <<>>) =>
        /\ \A a \in AgentSet : task_state[a] \in {"done", "exception"}
        /\ Len(prev) = Len(agents)
        /\ present_in(prev) = AgentSet
        /\ Len(resolved) = Len(agents)

C4_Witness ==
    /\ pc = "done"
    /\ \E a \in AgentSet : task_state[a] = "exception"
    /\ \E a \in AgentSet : task_state[a] = "done"
    /\ Len(resolved) = Len(agents)

\* C5: every Recommendation of the resolved list has a priority in 1..10
\* and a confidence in 0.0..1.0 (0..10 tenths), also after the rules rewrote
\* priorities: a rule never writes a priority below 1.
C5_PriorityInRange ==
    \A k \in DOMAIN resolved :
        /\ resolved[k].priority >= 1
        /\ resolved[k].priority <= 10
        /\ resolved[k].confidence_score >= 0
        /\ resolved[k].confidence_score <= 10

rule_just_applied == pc = "r_rules" /\ idx > 1

\* C6: after one rule has been applied of which at least two listed
\* identifiers are present, every present listed identifier has priority
\* 10 minus its index in the rule (absent listed identifiers keep their
\* index); irrigation (8) and fertilizer (7) under [irrigation, fertilizer]
\* end at 10 and 9.
C6_RuleOverwritesPriorities ==
    rule_just_applied =>
        LET rule == conflict_rules[idx - 1]
            listed == present_in(prev) \cap Range(rule)
        IN  /\ Cardinality(listed) >= 2 =>
                  \A a \in listed : priority_of(resolved, a) = 10 - index_in(rule, a)
            /\ ( /\ rule = <<"irrigation", "fertilizer">>
                 /\ {"irrigation", "fertilizer"} \subseteq present_in(prev)
                 /\ priority_of(prev, "irrigation") = 8
                 /\ priority_of(prev, "fertilizer") = 7 )
               => /\ priority_of(resolved, "irrigation") = 10
                  /\ priority_of(resolved, "fertilizer") = 9

C6_Witness ==
    /\ rule_just_applied
    /\ conflict_rules[idx - 1] = <<"irrigation", "soil", "fertilizer">>
    /\ {"irrigation", "fertilizer"} \subseteq present_in(prev)
    /\ priority_of(prev, "irrigation") = 8
    /\ priority_of(prev, "fertilizer") = 7
    /\ priority_of(resolved, "irrigation") = 10
    /\ priority_of(resolved, "fertilizer") = 8

\* the rules of the list that list a and find two listed identifiers present
rules_writing(a) ==
    {j \in DOMAIN conflict_rules :
        /\ a \in Range(conflict_rules[j])
        /\ Cardinality(present_in(agent_outputs) \cap Range(conflict_rules[j])) >= 2}

all_rules_applied == pc = "r_rules" /\ idx > Len(conflict_rules)

\* C7: rules apply in list order, last write wins: after all rules, an
\* identifier has the priority written by the last rule that lists it, one
\* no rule writes keeps the producer's priority; with A = [weather_risk,
\* irrigation] then B = [irrigation, fertilizer]: weather_risk 10,
\* irrigation 10, fertilizer 9.
C7_LastRuleWins ==
    all_rules_applied =>
        /\ \A a \in present_in(agent_outputs) :
              IF rules_writing(a) = {}
              THEN priority_of(resolved, a) = priority_of(agent_outputs, a)
              ELSE priority_of(resolved, a) =
                      10 - index_in(conflict_rules[Max(rules_writing(a))], a)
        /\ ( /\ conflict_rules = <<rule_A, rule_B>>
             /\ {"weather_risk", "irrigation", "fertilizer"} \subseteq present_in(agent_outputs) )
           => /\ priority_of(resolved, "weather_risk") = 10
              /\ priority_of(resolved, "irrigation") = 10
              /\ priority_of(resolved, "fertilizer") = 9

C7_Witness ==
    /\ all_rules_applied
    /\ conflict_rules = <<rule_A, rule_B>>
    /\ present_in(agent_outputs) = AgentSet
    /\ priority_of(resolved, "weather_risk") = 10
    /\ priority_of(resolved, "irrigation") = 10
    /\ priority_of(resolved, "fertilizer") = 9

\* C8: after _resolve_conflicts has applied the built-in rules to a set
\* holding all registered producers, the first-listed producer of every
\* built-in rule has strictly higher priority than the second-listed one.
C8_RulesForceOrdering ==
    ( /\ pc = "r_done"
      /\ conflict_rules = builtin_conflict_rules
      /\ present_in(resolved) = AgentSet )
    => \A j \in DOMAIN builtin_conflict_rules :
          priority_of(resolved, builtin_conflict_rules[j][1])
              > priority_of(resolved, builtin_conflict_rules[j][2])

\* C9: after the Deduplicator, no two tasks of the whole set, in one
\* Recommendation or in two, normalise to the same key.
C9_NoDuplicateKeys ==
    pc = "r_done" =>
        \A k1 \in DOMAIN resolved, k2 \in DOMAIN resolved :
            \A j1 \in DOMAIN resolved[k1].tasks, j2 \in DOMAIN resolved[k2].tasks :
                (<<k1, j1>> # <<k2, j2>>) =>
                    normalized(resolved[k1].tasks[j1]) # normalized(resolved[k2].tasks[j2])

\* a task of one entry was dropped because another entry holds a task that
\* differs in case, spaces or periods only
C9_Witness ==
    /\ pc = "r_done"
    /\ \E k1 \in DOMAIN prev, k2 \in DOMAIN prev :
          /\ k1 # k2
          /\ \E j1 \in DOMAIN prev[k1].tasks, j2 \in DOMAIN prev[k2].tasks :
                /\ prev[k1].tasks[j1] # prev[k2].tasks[j2]
                /\ normalized(prev[k1].tasks[j1]) = normalized(prev[k2].tasks[j2])
          /\ Len(resolved[k2].tasks) < Len(prev[k2].tasks)

\* C10: when two Recommendations hold tasks with the same normalised key,
\* the copy of the one with the higher resolved priority (the priority after
\* the built-in conflict rules) survives and the copy of the one with the
\* lower resolved priority is dropped.
C10_HigherPriorityCopySurvives ==
    (pc = "r_done" /\ conflict_rules = builtin_conflict_rules) =>
        \A x \in DOMAIN prev, y \in DOMAIN prev :
            (x # y /\ prev[x].priority > prev[y].priority) =>
                \A key \in normalized_keys(prev[x].tasks) \cap normalized_keys(prev[y].tasks) :
                    /\ key \in normalized_keys(resolved[x].tasks)
                    /\ key \notin normalized_keys(resolved[y].tasks)

tasks_of(recs, a) == recs[CHOOSE k \in DOMAIN recs : recs[k].agent = a].tasks

\* C11: de-duplication is idempotent: _remove_duplicate_tasks run on its own
\* output leaves every task list, content and order, as the first run left
\* it (and the list of Recommendations as it was).
C11_DedupIdempotent ==
    pc = "r_again" =>
        /\ Len(resolved) = Len(prev)
        /\ \A k \in DOMAIN prev :
              /\ resolved[k].agent = prev[k].agent
              /\ resolved[k].tasks = prev[k].tasks

\* the first run dropped a task of some producer, the second run has run
C11_Witness ==
    /\ pc = "r_again"
    /\ \E a \in present_in(agent_outputs) :
          /\ Len(tasks_of(prev, a)) < Len(tasks_of(agent_outputs, a))
          /\ tasks_of(resolved, a) # <<>>

plan_computed == pc \in {"p_confidence", "p_risk", "p_done"}

\* the tasks, flattened in list order from entry k on, of the
\* Recommendations whose priority lies between lo and hi
RECURSIVE tasks_between(_, _, _, _)
tasks_between(recs, k, lo, hi) ==
    IF k > Len(recs) THEN <<>>
    ELSE (IF lo <= recs[k].priority /\ recs[k].priority <= hi
          THEN recs[k].tasks ELSE <<>>)
         \o tasks_between(recs, k + 1, lo, hi)

high_tier == tasks_between(resolved, 1, 8, 1000)
medium_tier == tasks_between(resolved, 1, 6, 7)
low_tier == tasks_between(resolved, 1, 0 - 1000, 5)

prefix(list, n) == [j \in 1..(IF Len(list) < n THEN Len(list) ELSE n) |-> list[j]]

\* the text of a plan entry as the response carries it
as_returned(task) == _translate_text(task, request.language)

\* C12: the unified task list of the response has at most 10 entries.
C12_PlanAtMostTen == Len(response.unified_plan) <= 10

\* the tiers fill all 10 places and the appended tasks are cut off
C12_Witness ==
    /\ plan_computed
    /\ Len(high_tier) >= 3 /\ Len(medium_tier) >= 4 /\ Len(low_tier) >= 3
    /\ request.growth_stage # ""
    /\ Len(response.unified_plan) = 10

\* C13: the plan is tier-ordered and tier-capped: it starts with the first
\* 3 tasks of the flattened high tier (priority >= 8), then the first 4 of
\* the medium tier (6-7), then the first 3 of the low tier (<= 5), each in
\* list order, so high-tier tasks precede medium-tier ones and those
\* precede low-tier ones.
C13_TierOrderedAndCapped ==
    plan_computed =>
        LET tiers == prefix(high_tier, 3) \o prefix(medium_tier, 4) \o prefix(low_tier, 3)
            plan == response.unified_plan
        IN  /\ Len(plan) >= Len(tiers)
            /\ \A j \in DOMAIN tiers : plan[j] = as_returned(tiers[j])

\* every tier holds more tasks than its cap lets through
C13_Witness ==
    /\ plan_computed
    /\ Len(high_tier) > 3 /\ Len(medium_tier) > 4 /\ Len(low_tier) > 3
    /\ \E k \in DOMAIN resolved : resolved[k].priority = 8

\* sum of priority_i over the entries k..Len of a list
RECURSIVE priority_sum(_, _)
priority_sum(recs, k) ==
    IF k > Len(recs) THEN 0 ELSE recs[k].priority + priority_sum(recs, k + 1)

\* sum of confidence_i * priority_i, confidence in tenths
RECURSIVE confidence_priority_sum(_, _)
confidence_priority_sum(recs, k) ==
    IF k > Len(recs) THEN 0
    ELSE recs[k].confidence_score * recs[k].priority
         + confidence_priority_sum(recs, k + 1)

confidence_computed == pc \in {"p_risk", "p_done"}

\* num / den equals (tenths / 10) / weight
is_weighted_mean(c, recs) ==
    /\ priority_sum(recs, 1) > 0
    /\ c.num * 10 * priority_sum(recs, 1) = c.den * confidence_priority_sum(recs, 1)

\* C14: overall confidence is sum(confidence_i * priority_i) / sum(priority_i)
\* over the resolved set, with the priorities as the conflict rules rewrote
\* them; it is 0.5 for the empty set and always lies in [0.0, 1.0];
\* priority 8 / confidence 0.9 with priority 4 / confidence 0.5 gives
\* 9.2 / 12 (= 23 / 30).
C14_ConfidenceIsWeightedMean ==
    confidence_computed =>
        LET c == response.confidence_overall
        IN  /\ c.den > 0 /\ 0 <= c.num /\ c.num <= c.den
            /\ resolved = <<>> => c = [num |-> 1, den |-> 2]
            /\ resolved # <<>> => is_weighted_mean(c, resolved)
            /\ ( /\ Len(resolved) = 2
                 /\ resolved[1].priority = 8 /\ resolved[1].confidence_score = 9
                 /\ resolved[2].priority = 4 /\ resolved[2].confidence_score = 5 )
               => c = [num |-> 23, den |-> 30]

\* a rule rewrote a priority, and the mean with the producers' own
\* priorities would be another number
C14_Witness ==
    /\ pc = "p_done"
    /\ \E a \in present_in(agent_outputs) :
          priority_of(resolved, a) # priority_of(agent_outputs, a)
    /\ is_weighted_mean(response.confidence_overall, resolved)
    /\ ~is_weighted_mean(response.confidence_overall, agent_outputs)

overall_risk_level == response.risk_assessment.overall_risk_level

with_risk(recs, levels) == {k \in DOMAIN recs : recs[k].risk_level \in levels}

\* C15: overall risk is the worst case: it is "high" whenever at least one
\* Recommendation has risk level "high" or "critical".
C15_HighOrCriticalIsHigh ==
    pc = "p_done" =>
        (with_risk(resolved, {"high", "critical"}) # {} => overall_risk_level = "high")

\* C16: when no Recommendation is "high" or "critical", the overall risk is
\* "medium" if and only if two or more Recommendations are "medium"; with
\* one "medium", none, or an empty set it is "low".
C16_MediumNeedsTwo ==
    (pc = "p_done" /\ with_risk(resolved, {"high", "critical"}) = {}) =>
        IF Cardinality(with_risk(resolved, {"medium"})) >= 2
        THEN overall_risk_level = "medium"
        ELSE overall_risk_level = "low"

\* C17: the Fallback Synthesizer returns, for any producer identifier,
\* a Recommendation with that identifier, priority 5, confidence 0.5, risk
\* "low" and exactly one task: the identifier's entry of the static table,
\* or "Follow general best practices" when the table has no such entry.
C17_FallbackShape ==
    pc = "f_done" =>
        LET name == agent_tasks[1]
            rec == agent_outputs[1]
        IN  /\ Len(agent_outputs) = 1
            /\ rec.agent = name
            /\ rec.priority = 5
            /\ rec.confidence_score = 5
            /\ rec.risk_level = "low"
            /\ Len(rec.tasks) = 1
            /\ name \in AgentSet => rec.tasks[1] = fallback_summaries[name]
            /\ name \notin AgentSet => rec.tasks[1] = "Follow general best practices"
            /\ name = "irrigation" =>
                  rec.tasks[1] = "Monitor soil moisture and irrigate as needed"

\* the fallback of an identifier the table does not know
C17_Witness ==
    /\ pc = "f_done"
    /\ agent_tasks[1] = "soil_health"
    /\ agent_outputs[1].agent = "soil_health"
    /\ agent_outputs[1].tasks = <<"Follow general best practices">>

all_tasks(recs) == UNION {Range(recs[k].tasks) : k \in DOMAIN recs}

\* the two tasks the Plan Synthesizer appends, as it writes them
closing_task == "Monitor weather conditions and adjust plans accordingly"
contextual_task == "Monitor " \o request.crop \o " during " \o request.growth_stage \o " stage"

untranslated_language ==
    request.language = "en" \/ request.language \notin {"hi", "pa", "bn"}

\* C18: for a request whose language is "en" or has no translation table,
\* every Recommendation's summary, explanation and task list and every
\* unified-plan entry of the response equal the untranslated values, and
\* applying _translate_text once more changes none of them.
C18_TranslationIdentity ==
    (pc = "p_done" /\ untranslated_language) =>
        /\ Len(response.recommendations) = Len(prev)
        /\ \A k \in DOMAIN prev :
              LET rec == response.recommendations[k]
              IN  /\ rec.summary = prev[k].summary
                  /\ rec.explanation = prev[k].explanation
                  /\ rec.tasks = prev[k].tasks
                  /\ _translate_text(rec.summary, request.language) = rec.summary
                  /\ _translate_text(rec.explanation, request.language) = rec.explanation
                  /\ \A j \in DOMAIN rec.tasks :
                        _translate_text(rec.tasks[j], request.language) = rec.tasks[j]
        /\ \A j \in DOMAIN response.unified_plan :
              LET entry == response.unified_plan[j]
              IN  /\ entry \in all_tasks(prev) \cup {closing_task, contextual_task}
                  /\ _translate_text(entry, request.language) = entry

\* a response in a language without a table whose texts a language with a
\* table would have changed
C18_Witness ==
    /\ pc = "p_done"
    /\ request.language = "fr"
    /\ \E k \in DOMAIN resolved :
          /\ _translate_text(resolved[k].summary, "pa") # resolved[k].summary
          /\ \E j \in DOMAIN resolved[k].tasks :
                _translate_text(resolved[k].tasks[j], "pa") # resolved[k].tasks[j]

\* C19: the unified plan of the response is de-duplicated: no two of its
\* entries, the appended contextual and closing tasks included, normalise
\* (lowercase, spaces and periods removed) to the same key.
C19_PlanDeduplicated ==
    plan_computed =>
        \A i \in DOMAIN response.unified_plan, j \in DOMAIN response.unified_plan :
            i # j => normalized(response.unified_plan[i]) # normalized(response.unified_plan[j])

\* C20: the dispatcher's collected output lists the Recommendations in
\* registration order, whatever the order in which the producers finish or
\* fail: the entry at position k is always the one of the k-th registered
\* producer, and an entry once collected never moves.
C20_RegistrationOrder ==
    /\ Len(agent_outputs) <= Len(agents)
    /\ \A k \in DOMAIN agent_outputs : agent_outputs[k].agent = agents[k]

\* two entries have been collected and the loop waits for the third
\* producer, while a later one has already failed and the last one has
\* already finished
C20_Witness ==
    /\ pc = "suspended"
    /\ idx = 3
    /\ Len(agent_outputs) = 2
    /\ task_state["pest"] = "pending"
    /\ task_state["finance_policy"] = "done"
    /\ task_state["market"] = "exception"

\* C21: within one request every registered producer's recommend is
\* invoked exactly once: never a second time, whether it failed or not,
\* and once by the time the request has ended.
C21_InvokedExactlyOnce ==
    /\ \A a \in AgentSet : invocations[a] <= 1
    /\ pc \in {"done", "raised"} => \A a \in AgentSet : invocations[a] = 1

\* C22: frame of one rule application: a rule of which zero or one listed
\* identifier is present changes nothing; in every case the priorities of
\* identifiers the rule does not list, every task list and confidence, and
\* the order and number of Recommendations stay as they were.
C22_RuleFrame ==
    rule_just_applied =>
        LET rule == conflict_rules[idx - 1]
            listed == present_in(prev) \cap Range(rule)
        IN  /\ Cardinality(listed) <= 1 => resolved = prev
            /\ Len(resolved) = Len(prev)
            /\ \A k \in DOMAIN prev :
                  /\ resolved[k].agent = prev[k].agent
                  /\ resolved[k].tasks = prev[k].tasks
                  /\ resolved[k].confidence_score = prev[k].confidence_score
                  /\ prev[k].agent \notin Range(rule) =>
                        resolved[k].priority = prev[k].priority

\* a rule that lists pest and an identifier that is not present was applied
\* to a list in which pest does not have the priority the rule would write
C22_Witness ==
    /\ rule_just_applied
    /\ conflict_rules[idx - 1] = <<"soil", "pest">>
    /\ "pest" \in present_in(prev)
    /\ priority_of(prev, "pest") # 9
    /\ resolved = prev

priorities(recs) == [k \in DOMAIN recs |-> <<recs[k].agent, recs[k].priority>>]

same_rule_again ==
    rule_just_applied /\ idx >= 3 /\ conflict_rules[idx - 1] = conflict_rules[idx - 2]

\* the list the rules start from, with the two rules applied in the order
\* opposite to the one of conflict_rules
in_opposite_order ==
    _apply_conflict_rule(
        _apply_conflict_rule(sort_by_priority(agent_outputs), conflict_rules[2]),
        conflict_rules[1])

overlapping_pair ==
    /\ all_rules_applied
    /\ conflict_rules \in {<<rule_A, rule_B>>, <<rule_B, rule_A>>}
    /\ {"weather_risk", "irrigation", "fertilizer"} \subseteq present_in(agent_outputs)

\* C23: a conflict rule is idempotent: applied a second time in a row it
\* leaves the priorities as the first application left them; rule
\* application is not commutative: [weather_risk, irrigation] and
\* [irrigation, fertilizer], which share irrigation, give irrigation 10 in
\* one order and 9 in the other.
C23_IdempotentNotCommutative ==
    /\ same_rule_again => priorities(resolved) = priorities(prev)
    /\ overlapping_pair =>
          /\ priorities(resolved) # priorities(in_opposite_order)
          /\ priority_of(resolved, "irrigation") =
                 (IF conflict_rules = <<rule_A, rule_B>> THEN 10 ELSE 9)

\* a rule that rewrote priorities has been applied a second time
C23_Witness ==
    /\ same_rule_again
    /\ conflict_rules[idx - 1] = <<"irrigation", "soil", "fertilizer">>
    /\ priorities(prev) # priorities(sort_by_priority(agent_outputs))
    /\ priority_of(resolved, "fertilizer") = 8

position_of(recs, a) == CHOOSE k \in DOMAIN recs : recs[k].agent = a

\* a comes before b in the stable descending sort by the priorities the
\* producers returned
sorts_before(a, b) ==
    \/ priority_of(agent_outputs, a) > priority_of(agent_outputs, b)
    \/ /\ priority_of(agent_outputs, a) = priority_of(agent_outputs, b)
       /\ position_of(agent_outputs, a) < position_of(agent_outputs, b)

sorted_once == pc \in {"r_rules", "r_done", "r_again"}

\* C24: the order of the list after conflict resolution is the stable
\* descending sort by the priorities the producers returned, ties in
\* registration order; the rules rewrite priorities and never reorder, and
\* nothing re-sorts by the rewritten priority.
C24_OrderIsProducerSort ==
    sorted_once =>
        /\ Len(resolved) = Len(agent_outputs)
        /\ present_in(resolved) = present_in(agent_outputs)
        /\ \A i \in DOMAIN resolved, j \in DOMAIN resolved :
              i < j => sorts_before(resolved[i].agent, resolved[j].agent)

\* two producers returned the same priority, and the resolved list is not
\* in descending order of the rewritten priorities
C24_Witness ==
    /\ pc = "r_done"
    /\ \E a \in present_in(agent_outputs), b \in present_in(agent_outputs) :
          a # b /\ priority_of(agent_outputs, a) = priority_of(agent_outputs, b)
    /\ \E i \in DOMAIN resolved, j \in DOMAIN resolved :
          i < j /\ resolved[i].priority < resolved[j].priority

\* the resolved priority of the Recommendation a plan entry comes from
owner_priority(entry) ==
    resolved[CHOOSE k \in DOMAIN resolved :
                 \E j \in DOMAIN resolved[k].tasks :
                     as_returned(resolved[k].tasks[j]) = entry].priority

tier_entries == Len(prefix(high_tier, 3)) + Len(prefix(medium_tier, 4))
                + Len(prefix(low_tier, 3))

same_tier(p, q) ==
    \/ p >= 8 /\ q >= 8
    \/ p \in 6..7 /\ q \in 6..7
    \/ p <= 5 /\ q <= 5

\* C25: downstream stages order by the rewritten priority: in the
\* response's Recommendation list, and inside each tier of the unified
\* plan, the tasks of a Recommendation with higher resolved priority come
\* before the tasks of one with lower resolved priority.
C25_OrderedByResolvedPriority ==
    pc = "p_done" =>
        /\ \A i \in DOMAIN response.recommendations, j \in DOMAIN response.recommendations :
              i < j => response.recommendations[i].priority
                          >= response.recommendations[j].priority
        /\ \A i \in 1..tier_entries, j \in 1..tier_entries :
              LET p == owner_priority(response.unified_plan[i])
                  q == owner_priority(response.unified_plan[j])
              IN  (i < j /\ same_tier(p, q)) => p >= q

stage_known == request.growth_stage # ""

\* number of tier tasks plus the contextual task
before_closing == tier_entries + (IF stage_known THEN 1 ELSE 0)

\* C26: after the tier tasks the Plan Synthesizer appends the task naming
\* crop and growth stage if and only if the stage is known, then the
\* closing weather-monitoring task, and only then cuts to 10: the closing
\* task is the last entry exactly when tier tasks plus contextual task are
\* at most 9, and with 10 tier tasks neither appended task appears.
C26_AppendThenTruncate ==
    plan_computed =>
        LET plan == response.unified_plan
        IN  /\ Len(plan) = (IF before_closing + 1 <= 10 THEN before_closing + 1 ELSE 10)
            /\ (stage_known /\ tier_entries <= 9) =>
                  plan[tier_entries + 1] = as_returned(contextual_task)
            /\ ~stage_known => as_returned(contextual_task) \notin Range(plan)
            /\ (plan[Len(plan)] = as_returned(closing_task)) <=> (before_closing <= 9)
            /\ tier_entries = 10 =>
                  /\ as_returned(contextual_task) \notin Range(plan)
                  /\ as_returned(closing_task) \notin Range(plan)

\* nine tier tasks and a known stage: the contextual task is the tenth
\* entry and the closing task is cut off
C26_Witness ==
    /\ plan_computed
    /\ tier_entries = 9
    /\ stage_known
    /\ Len(response.unified_plan) = 10
    /\ response.unified_plan[10] = as_returned(contextual_task)

\* C27: the aggregators do not depend on the order of the list: for every
\* ordering of the same Recommendations the overall confidence and the overall
\* risk level are those computed from the original list.
C27_OrderIndependent ==
    pc = "p_done" =>
        /\ response.confidence_overall = float_overall_confidence(agent_outputs)
        /\ response.risk_assessment.overall_risk_level
               = _generate_risk_assessment(agent_outputs).overall_risk_level

\* what the producers of a call did, in registration order: the returned
\* Recommendation, or the fallback for a producer that raised
outcomes_of(call) ==
    [k \in 1..Len(agents) |->
        IF call.task_state[agents[k]] = "done" THEN call.task_result[agents[k]]
        ELSE _create_fallback_recommendation(agents[k], call.request)]

\* the call ended as it ends when it is the only one
as_handled_alone(call) ==
    /\ call.pc = "done" =>
          call.response = build_response(outcomes_of(call), call.request)
    /\ call.pc = "raised" =>
          /\ call.response = NoResponse
          /\ call.exception \in {"TypeError", "ProducerError"}

\* C28: no state crosses from one request to another: of two calls on the
\* same coordinator, run one after the other or interleaved where a call
\* is suspended, each ends with the response it gets alone from the same
\* producer outcomes, and the registry and the rule list stay as they were.
C28_NoCrossRequestState ==
    [][ /\ as_handled_alone(call_locals')
        /\ as_handled_alone(other')
        /\ is_coroutine' = is_coroutine
        /\ conflict_rules' = conflict_rules ]_vars

\* the second call has returned, one of its seven Recommendations a
\* fallback, while the first, begun earlier, is still suspended in its
\* await loop with two results collected
C28_Witness ==
    /\ pc = "done"
    /\ request = Request("flowering", "en")
    /\ task_state["weather_risk"] = "exception"
    /\ Len(response.recommendations) = Len(agents)
    /\ other.pc = "suspended"
    /\ Len(other.agent_outputs) = 2

\* a verify_otp call has just been answered
verify_answered(detail) ==
    /\ reply'.call = "verify_otp"
    /\ reply'.detail = detail
    /\ (reply' # reply \/ otp_store' # otp_store)

\* C29: an OTP is single-use and latest-only: verify_otp succeeds only with
\* the code of the most recent send_otp for the phone, not after its expiry,
\* and once per send; a verification that succeeds or finds the OTP expired
\* removes it, so that a repeat has nothing to verify; a verification
\* refused for a wrong code leaves the stored OTPs and the bindings of
\* phones to farmers as they were.
C29_SingleUseLatestOnly ==
    [][ /\ verify_answered("OTP verified") =>
              /\ reply'.status = 200
              /\ reply'.phone \in DOMAIN otp_store
              /\ reply'.otp = issued[reply'.phone].code
              /\ now <= issued[reply'.phone].sent_at + OtpTtl
              /\ issued[reply'.phone].verified = 0
              /\ reply'.phone \notin DOMAIN otp_store'
        /\ verify_answered("OTP expired. Please request a new one") =>
              /\ reply'.phone \notin DOMAIN otp_store'
        /\ verify_answered("No OTP requested for this phone") =>
              /\ reply'.phone \notin DOMAIN otp_store
        /\ verify_answered("Invalid OTP") =>
              /\ otp_store' = otp_store
              /\ phone_to_farmer' = phone_to_farmer
              /\ user_store' = user_store ]_vars

\* a phone was sent a second code and has been verified with it, at the
\* last second of the code's life
C29_Witness ==
    /\ reply.call = "verify_otp"
    /\ reply.status = 200
    /\ issued[reply.phone].sends = 2
    /\ issued[reply.phone].verified = 1
    /\ now = issued[reply.phone].sent_at + OtpTtl
    /\ reply.phone \notin DOMAIN otp_store

\* C30: a farmer_id belongs to one phone: two different E.164 numbers never
\* get the same farmer_id from verify_otp, and verifying a phone that is
\* bound already returns the farmer_id it was bound to.
C30_FarmerIdUnique ==
    [][ /\ \A p, q \in DOMAIN user_store'.phone_to_farmer :
              p # q => user_store'.phone_to_farmer[p] # user_store'.phone_to_farmer[q]
        /\ verify_answered("OTP verified")
             /\ _normalize_indian(reply'.phone) \in DOMAIN user_store.phone_to_farmer =>
              reply'.farmer_id
                 = user_store.phone_to_farmer[_normalize_indian(reply'.phone)] ]_vars


====
